---- MODULE Spec2Model ----
(***************************************************************************)
(* A model of the UXAudit plugin: the scoring of issue lists, the frame    *)
(* audit over an element tree, the contrast and background rules, the      *)
(* jargon scan and the website audit with its remote call.                 *)
(*                                                                         *)
(* Each part of the program has its own specification over the shared      *)
(* variables; the variables a specification does not use stay at their     *)
(* initial value.                                                          *)
(***************************************************************************)
EXTENDS Integers, Sequences, FiniteSets, TLC

VARIABLES
    issues,      \* the Issue[] handed to the two score functions
    scorePc,     \* "input" before the score functions ran, "scored" after
    accScore,    \* result of calculateAccessibilityScore(issues)
    heurScore,   \* result of calculateHeuristicsScore(issues)
    doc,         \* the element tree supplied by the host: a sequence of nodes
    settings,    \* the Settings record passed to analyzeFrame
    frameResult, \* the AuditResult analyzeFrame returned, or Undefined
    bgUsed,      \* per text node, the background checkTextContrast judged it against
    auditFrameResult, \* what auditFrame of code.ts returned, or NoResult
    wcagInput,   \* the arguments of a checkWCAGCompliance call
    wcagResult,  \* what that call returned, or NoResult
    webInput,    \* the arguments of an analyzeWebsite call: [url, settings]
    webPc,       \* where that call stands: "start", "awaitFetch", "done"
    requests,    \* the requests runLighthouseAudit sent to the scoring service
    response,    \* what the fetch of runLighthouseAudit settled with
    lhOutcome,   \* how runLighthouseAudit ended: returned a value or threw
    webResult,   \* the AuditResult analyzeWebsite returned, or NoResult
    currentSettings, \* code.ts: the plugin's settings
    storage,     \* code.ts: figma.clientStorage under 'ux-audit-settings'
    pluginPc,    \* code.ts: "idle", or "awaitFetch" inside performDetailedWebsiteAudit
    pluginRequests,  \* code.ts: the requests sent to the scoring service
    pluginAudit, \* code.ts: the latest auditWebsite call: key, url, outcome
    posted,      \* code.ts: messages posted to the UI, oldest first
    notified,    \* code.ts: figma.notify texts, oldest first
    handled,     \* code.ts: number of UI messages handled so far
    lastMessage, \* code.ts: the UI message handled last, with the selection it met
    auditCalls,  \* code.ts: the audit functions called so far, oldest first
    pendingLoad, \* code.ts: the getAsync of load-settings that has not settled
    moduleStorage,  \* settings module: what clientStorage holds under its key
    settingsCall,   \* settings module: the last call and how it ended
    exportInput, \* export: the arguments of exportReport and its environment
    alerts,      \* export: the texts shown with alert(), oldest first
    downloads,   \* export: the files handed to the browser, oldest first
    exportOutcome,  \* export: how exportReport ended
    walkInput,   \* recursion: the analysis function called and the tree it is given
    callStack    \* recursion: the calls of the analysis function that have not returned

scoreVars == <<issues, scorePc, accScore, heurScore>>

docVars == <<doc, settings, frameResult, bgUsed, auditFrameResult>>

wcagVars == <<wcagInput, wcagResult>>

webVars == <<webInput, webPc, requests, response, lhOutcome, webResult>>

settingsVars == <<moduleStorage, settingsCall>>

exportVars == <<exportInput, alerts, downloads, exportOutcome>>

walkVars == <<walkInput, callStack>>

pluginVars == <<currentSettings, storage, pluginPc, pluginRequests, pluginAudit,
                posted, notified, handled, lastMessage, auditCalls, pendingLoad>>

vars == <<issues, scorePc, accScore, heurScore, doc, settings, frameResult, bgUsed,
          auditFrameResult, wcagInput, wcagResult,
          webInput, webPc, requests, response, lhOutcome, webResult,
          currentSettings, storage, pluginPc, pluginRequests, pluginAudit,
          posted, notified, handled, lastMessage, auditCalls, pendingLoad,
          moduleStorage, settingsCall,
          exportInput, alerts, downloads, exportOutcome, walkInput, callStack>>

(***************************************************************************)
(* Values shared by all parts                                              *)
(***************************************************************************)

\* JavaScript's undefined where a number may stand: an optional score
\* that is not set, a text property of a node that is no text.
Undefined == -1

Max(a, b) == IF a >= b THEN a ELSE b

Min(a, b) == IF a <= b THEN a ELSE b

Severities == {"error", "warning", "info"}

IssueTypes == {"accessibility", "heuristic", "seo", "performance"}

\* Math.round(n / d) for n >= 0, d > 0: round half up.
RoundDiv(n, d) == (2 * n + d) \div (2 * d)

\* No Settings record, no AuditResult: the value of a variable that holds
\* none yet.
NoSettings == [none |-> TRUE]

NoResult == [none |-> TRUE]

\* The value of each part's variables while another part runs.
ScoreIdle ==
    /\ issues = <<>>
    /\ scorePc = "off"
    /\ accScore = Undefined
    /\ heurScore = Undefined

WcagIdle ==
    /\ wcagInput = NoResult
    /\ wcagResult = NoResult

WebIdle ==
    /\ webInput = NoResult
    /\ webPc = "off"
    /\ requests = <<>>
    /\ response = NoResult
    /\ lhOutcome = NoResult
    /\ webResult = NoResult

PluginIdle ==
    /\ currentSettings = NoSettings
    /\ storage = NoResult
    /\ pluginPc = "off"
    /\ pluginRequests = <<>>
    /\ pluginAudit = NoResult
    /\ posted = <<>>
    /\ notified = <<>>
    /\ handled = 0
    /\ lastMessage = NoResult
    /\ auditCalls = <<>>
    /\ pendingLoad = NoResult

SettingsIdle ==
    /\ moduleStorage = NoResult
    /\ settingsCall = NoResult

WalkIdle ==
    /\ walkInput = NoResult
    /\ callStack = <<>>

ExportIdle ==
    /\ exportInput = NoResult
    /\ alerts = <<>>
    /\ downloads = <<>>
    /\ exportOutcome = NoResult

DocIdle ==
    /\ doc = <<>>
    /\ settings = NoSettings
    /\ frameResult = NoResult
    /\ bgUsed = <<>>
    /\ auditFrameResult = NoResult

(***************************************************************************)
(* Scorer: calculateAccessibilityScore, calculateHeuristicsScore           *)
(***************************************************************************)

\* Longest run of equal issues in a generated issue list.
MaxRep == 9

\* switch (issue.severity) of calculateAccessibilityScore
AccWeight(sev) ==
    CASE sev = "error" -> 15
      [] sev = "warning" -> 8
      [] sev = "info" -> 3
      [] OTHER -> 0

\* A copy of the accessibility weights where the heuristic ones belong.
HeurWeightCopied(sev) ==
    CASE sev = "error" -> 15
      [] sev = "warning" -> 8
      [] sev = "info" -> 3
      [] OTHER -> 0

\* switch (issue.severity) of calculateHeuristicsScore
HeurWeight(sev) ==
    CASE sev = "error" -> 12
      [] sev = "warning" -> 7
      [] sev = "info" -> 3
      [] OTHER -> 0

\* The final clamp without its lower bound.
ClampScoreNoFloor(score) == Min(100, score)

\* Math.max(0, Math.min(100, score))
ClampScore(score) == Max(0, Min(100, score))

\* issues.forEach(...) of calculateAccessibilityScore: the running score.
RECURSIVE AccFold(_, _)
AccFold(list, score) ==
    IF list = <<>> THEN score
    ELSE AccFold(Tail(list),
                 IF Head(list).type = "accessibility"
                 THEN score - AccWeight(Head(list).severity)
                 ELSE score)

\* issues.forEach(...) of calculateHeuristicsScore: the running score.
RECURSIVE HeurFold(_, _)
HeurFold(list, score) ==
    IF list = <<>> THEN score
    ELSE HeurFold(Tail(list),
                  IF Head(list).type = "heuristic"
                  THEN score - HeurWeight(Head(list).severity)
                  ELSE score)

calculateAccessibilityScore(list) == ClampScore(AccFold(list, 100))

calculateHeuristicsScore(list) == ClampScore(HeurFold(list, 100))

\* The issue lists the score functions are applied to: two runs of equal
\* issues, each of length 0..MaxRep, of any type and severity.
ScoreIssue(t, s) == [type |-> t, severity |-> s, title |-> "t"]

Run(issue, n) == [k \in 1..n |-> issue]

Runs ==
    {Run(ScoreIssue(t, s), n) :
        t \in {"accessibility", "heuristic", "seo"}, s \in Severities, n \in 0..MaxRep}

InitScore ==
    /\ WalkIdle
    /\ ExportIdle
    /\ SettingsIdle
    /\ \E a \in Runs, b \in Runs : issues = a \o b
    /\ scorePc = "input"
    /\ accScore = Undefined
    /\ heurScore = Undefined
    /\ DocIdle
    /\ WcagIdle
    /\ WebIdle
    /\ PluginIdle

\* A caller applies both score functions to the issue list.
CalculateScores ==
    /\ scorePc = "input"
    /\ accScore' = calculateAccessibilityScore(issues)
    /\ heurScore' = calculateHeuristicsScore(issues)
    /\ scorePc' = "scored"
    /\ UNCHANGED <<issues, docVars, wcagVars, webVars, pluginVars, settingsVars, exportVars, walkVars>>

NextScore == CalculateScores

SpecScore == InitScore /\ [][NextScore]_vars

\* Number of issues of the list with the given type and severity.
CountOf(list, t, s) ==
    Cardinality({k \in DOMAIN list : list[k].type = t /\ list[k].severity = s})

\* C1: for every issue list both category scores are integers in [0,100],
\* and for the empty issue list each is exactly 100.
C1_ScoreInRange ==
    scorePc = "scored" =>
        /\ accScore \in 0..100
        /\ heurScore \in 0..100
        /\ (issues = <<>> => accScore = 100 /\ heurScore = 100)

\* C1 witness: a scored list whose deductions pass 100, clamped to 0.
C1_Witness ==
    /\ scorePc = "scored"
    /\ AccFold(issues, 100) < 0
    /\ accScore = 0

\* C2: the accessibility score is max(0, 100 - 15e - 8w - 3i) and the
\* heuristics score max(0, 100 - 12e - 7w - 3i), counting only the issues
\* of the scored category, with one clamp after the whole fold.
C2_ScoreFormula ==
    scorePc = "scored" =>
        /\ accScore =
             Max(0, 100 - 15 * CountOf(issues, "accessibility", "error")
                        - 8 * CountOf(issues, "accessibility", "warning")
                        - 3 * CountOf(issues, "accessibility", "info"))
        /\ heurScore =
             Max(0, 100 - 12 * CountOf(issues, "heuristic", "error")
                        - 7 * CountOf(issues, "heuristic", "warning")
                        - 3 * CountOf(issues, "heuristic", "info"))

\* C2 witness: a scored list mixing both categories, where the heuristics
\* score is lowered by its own issues only.
C2_Witness ==
    /\ scorePc = "scored"
    /\ CountOf(issues, "accessibility", "error") > 0
    /\ CountOf(issues, "heuristic", "warning") = 3
    /\ heurScore = 79


(***************************************************************************)
(* Strings: a string is a sequence of one-character strings                *)
(***************************************************************************)

UpperAlphabet == <<"A", "B", "C", "D", "E", "F", "G", "H", "I", "J", "K", "L", "M", "N", "O", "P", "Q", "R", "S", "T", "U", "V", "W", "X", "Y", "Z">>

LowerAlphabet == <<"a", "b", "c", "d", "e", "f", "g", "h", "i", "j", "k", "l", "m", "n", "o", "p", "q", "r", "s", "t", "u", "v", "w", "x", "y", "z">>

Letters == {UpperAlphabet[i] : i \in DOMAIN UpperAlphabet} \cup {LowerAlphabet[i] : i \in DOMAIN LowerAlphabet}

ToLowerChar(c) ==
    IF \E i \in DOMAIN UpperAlphabet : UpperAlphabet[i] = c
    THEN LowerAlphabet[CHOOSE i \in DOMAIN UpperAlphabet : UpperAlphabet[i] = c]
    ELSE c

\* String.prototype.toLowerCase
toLowerCase(str) == [i \in DOMAIN str |-> ToLowerChar(str[i])]

\* String.prototype.includes
Includes(str, sub) ==
    \E i \in 0..(Len(str) - Len(sub)) : SubSeq(str, i + 1, i + Len(sub)) = sub

\* node.name.toLowerCase().includes(w) for some w of words
NameHasAny(n, words) == \E w \in words : Includes(toLowerCase(n.name), w)

\* The words the heuristic checks look for.
W_form == <<"f", "o", "r", "m">>

W_input == <<"i", "n", "p", "u", "t">>

W_field == <<"f", "i", "e", "l", "d">>

W_text == <<"t", "e", "x", "t">>

W_status == <<"s", "t", "a", "t", "u", "s">>

W_feedback == <<"f", "e", "e", "d", "b", "a", "c", "k">>

W_error == <<"e", "r", "r", "o", "r">>

W_success == <<"s", "u", "c", "c", "e", "s", "s">>

W_modal == <<"m", "o", "d", "a", "l">>

W_dialog == <<"d", "i", "a", "l", "o", "g">>

W_popup == <<"p", "o", "p", "u", "p">>

W_close == <<"c", "l", "o", "s", "e">>

W_cancel == <<"c", "a", "n", "c", "e", "l">>

W_dismiss == <<"d", "i", "s", "m", "i", "s", "s">>

W_x == <<"x">>

W_delete == <<"d", "e", "l", "e", "t", "e">>

W_remove == <<"r", "e", "m", "o", "v", "e">>

W_destroy == <<"d", "e", "s", "t", "r", "o", "y">>

W_confirm == <<"c", "o", "n", "f", "i", "r", "m">>

W_verification == <<"v", "e", "r", "i", "f", "i", "c", "a", "t", "i", "o", "n">>

W_are_you_sure == <<"a", "r", "e", " ", "y", "o", "u", " ", "s", "u", "r", "e">>

W_textbox == <<"t", "e", "x", "t", "b", "o", "x">>

W_label == <<"l", "a", "b", "e", "l">>

W_button == <<"b", "u", "t", "t", "o", "n">>

W_help == <<"h", "e", "l", "p">>

W_support == <<"s", "u", "p", "p", "o", "r", "t">>

\* The mis-encoded multiplication sign of checkUserControlAndFreedom.
W_times == <<"A-tilde", "em-dash">>

(***************************************************************************)
(* The element tree                                                        *)
(*                                                                         *)
(* doc is a sequence of nodes; a node's id is its index and parent is the  *)
(* id of its parent, 0 for the audited root (whose parents, the page and   *)
(* the document, have no fills).  A node's children are the nodes naming   *)
(* it as parent, in id order.                                              *)
(***************************************************************************)

\* figma.mixed where a number may stand: a text property that differs
\* within the text.
Mixed == -2

\* Colors have channels in hundredths of [0,1].
Color(r, g, b) == [r |-> r, g |-> g, b |-> b]

\* null where a color may stand.
Null == [r |-> Undefined, g |-> Undefined, b |-> Undefined]

White == Color(100, 100, 100)

Black == Color(0, 0, 0)

Grey40 == Color(40, 40, 40)

Grey50 == Color(50, 50, 50)

Grey60 == Color(60, 60, 60)

SolidPaint(c, vis) == [type |-> "SOLID", visible |-> vis, color |-> c]

GradientPaint == [type |-> "GRADIENT_LINEAR", visible |-> TRUE, color |-> Null]

\* undefined where a paint may stand: what Array.prototype.find returns
\* when no paint matches.
NoPaint == [type |-> "NONE", visible |-> FALSE, color |-> Null]

\* node.fills: an array of paints, figma.mixed, or no such property (a
\* group has none).
Fills(paints) == [kind |-> "array", paints |-> paints]

MixedFills == [kind |-> "mixed", paints |-> <<>>]

NoFills == [kind |-> "absent", paints |-> <<>>]

\* A node with the properties the checks read.
Node(parent, type, name, fills, fontSize, fontWeight, characters, x, width, height, reactions) ==
    [parent |-> parent, type |-> type, name |-> name, fills |-> fills,
     fontSize |-> fontSize, fontWeight |-> fontWeight, characters |-> characters,
     x |-> x, width |-> width, height |-> height, reactions |-> reactions,
     fontName |-> [family |-> "Inter", style |-> "Regular"]]

\* 'fills' in node && node.fills && Array.isArray(node.fills)
IsArray(fills) == fills.kind = "array"

\* 'children' in node
HasChildrenProp(n) == n.type \in {"FRAME", "GROUP", "COMPONENT", "INSTANCE"}

\* node.children, in order
ChildrenOf(d, p) ==
    LET ids == {i \in DOMAIN d : d[i].parent = p}
        RECURSIVE Asc(_)
        Asc(S) == IF S = {} THEN <<>>
                  ELSE LET m == CHOOSE x \in S : \A y \in S : x <= y
                       IN <<m>> \o Asc(S \ {m})
    IN Asc(ids)

(***************************************************************************)
(* Color math (accessibility.ts)                                           *)
(***************************************************************************)

\* convertChannel: channel <= 0.03928 ? channel / 12.92
\*                 : ((channel + 0.055) / 1.055) ^ 2.4,
\* in thousandths, for the channel values (hundredths) the model uses.
convertChannel(channel) ==
    CASE channel = 0 -> 0
      [] channel = 40 -> 133
      [] channel = 50 -> 214
      [] channel = 60 -> 319
      [] channel = 100 -> 1000

\* 0.2126 r + 0.7152 g + 0.0722 b, in units of 10^-7.
calculateLuminance(color) ==
    2126 * convertChannel(color.r) + 7152 * convertChannel(color.g)
        + 722 * convertChannel(color.b)

\* calculateContrastRatio(color1, color2) < required, where required is
\* given in tenths: (lighter + 0.05) / (darker + 0.05) < required.
ContrastBelow(color1, color2, required10) ==
    LET l1 == calculateLuminance(color1)
        l2 == calculateLuminance(color2)
        lighter == Max(l1, l2)
        darker == Min(l1, l2)
    IN (lighter + 500000) * 10 < required10 * (darker + 500000)

(***************************************************************************)
(* analyzeAccessibility and its checks (accessibility.ts)                  *)
(***************************************************************************)

\* node.fills.find(fill => fill.type === 'SOLID' && fill.visible !== false)
RECURSIVE FindVisibleSolid(_)
FindVisibleSolid(fills) ==
    IF fills = <<>> THEN NoPaint
    ELSE IF Head(fills).type = "SOLID" /\ Head(fills).visible # FALSE
         THEN Head(fills)
         ELSE FindVisibleSolid(Tail(fills))

\* getNodeColor that takes the first paint whatever its kind and visibility.
getNodeColorFirstPaint(n) ==
    IF ~IsArray(n.fills) \/ n.fills.paints = <<>> THEN Null
    ELSE IF n.fills.paints[1].type = "SOLID" THEN n.fills.paints[1].color ELSE Null

\* Whether the try block of getNodeColor throws: the paint it finds has no
\* color, so that reading solidFill.color.r is a TypeError.
getNodeColorThrows(n) ==
    /\ IsArray(n.fills)
    /\ n.fills.paints # <<>>
    /\ FindVisibleSolid(n.fills.paints) # NoPaint
    /\ FindVisibleSolid(n.fills.paints).color = Null

\* getNodeColor(node); its catch block logs the error and returns null.
getNodeColor(n) ==
    IF ~IsArray(n.fills) \/ n.fills.paints = <<>> THEN Null
    ELSE IF getNodeColorThrows(n) THEN Null
    ELSE LET solidFill == FindVisibleSolid(n.fills.paints)
         IN IF solidFill = NoPaint \/ solidFill.type # "SOLID" THEN Null ELSE solidFill.color

\* The while loop of checkTextContrast, from ancestor p upward: the color
\* found, or Null.
RECURSIVE BackgroundWalk(_, _)
BackgroundWalk(d, p) ==
    IF p = 0 THEN Null
    ELSE LET bgColor == IF IsArray(d[p].fills) /\ Len(d[p].fills.paints) > 0
                        THEN getNodeColor(d[p])
                        ELSE Null
         IN IF bgColor # Null THEN bgColor ELSE BackgroundWalk(d, d[p].parent)

\* The background checkTextContrast uses for text node t.
TextBackground(d, t) ==
    LET found == BackgroundWalk(d, d[t].parent)
    IN IF found = Null THEN White ELSE found

\* fontSize as checkTextContrast reads it: 14 when mixed.
ContrastFontSize(n) == IF n.fontSize = Mixed THEN 14 ELSE n.fontSize

\* isBold: typeof node.fontWeight === 'number' && node.fontWeight >= 700
IsBold(n) == n.fontWeight # Mixed /\ n.fontWeight >= 700

\* The required ratio of checkTextContrast, in tenths.
RequiredRatio10(n) ==
    LET fontSize == ContrastFontSize(n)
        isLargeText == fontSize >= 18 \/ (fontSize >= 14 /\ IsBold(n))
    IN IF isLargeText THEN 30 ELSE 45

AccIssue(sev, title, id) ==
    [type |-> "accessibility", severity |-> sev, title |-> title, node |-> id]

\* Whether checkTextContrast gets as far as comparing colors for node t.
ContrastJudged(d, t) ==
    /\ d[t].type = "TEXT"
    /\ getNodeColor(d[t]) # Null

checkTextContrast(d, t) ==
    IF ~ContrastJudged(d, t) THEN <<>>
    ELSE IF ContrastBelow(getNodeColor(d[t]), TextBackground(d, t), RequiredRatio10(d[t]))
         THEN <<AccIssue("warning", "Low contrast text", t)>>
         ELSE <<>>

checkTextSize(d, t) ==
    IF d[t].fontSize # Mixed /\ d[t].fontSize < 12
    THEN <<AccIssue("warning", "Small text size", t)>>
    ELSE <<>>

\* Lengths are in tenths of a pixel.
checkTouchTargetSize(d, t) ==
    IF d[t].width < 44 * 10 \/ d[t].height < 44 * 10
    THEN <<AccIssue("warning", "Small touch target", t)>>
    ELSE <<>>

\* analyzeAccessibility(node, settings): the node's own issues, then its
\* children's, in order.
RECURSIVE analyzeAccessibility(_, _, _)
analyzeAccessibility(d, t, s) ==
    IF ~s.accessibilityChecks THEN <<>>
    ELSE LET own ==
                 (IF IsArray(d[t].fills)
                  THEN checkTextContrast(d, t) ELSE <<>>)
                 \o (IF d[t].type = "TEXT" THEN checkTextSize(d, t) ELSE <<>>)
                 \o (IF d[t].reactions > 0 THEN checkTouchTargetSize(d, t) ELSE <<>>)
             RECURSIVE OverChildren(_)
             OverChildren(cs) ==
                 IF cs = <<>> THEN <<>>
                 ELSE analyzeAccessibility(d, Head(cs), s) \o OverChildren(Tail(cs))
         IN own \o (IF HasChildrenProp(d[t]) THEN OverChildren(ChildrenOf(d, t)) ELSE <<>>)


(***************************************************************************)
(* analyzeHeuristics and its checks (heuristics.ts)                        *)
(*                                                                         *)
(* x, width and height are in tenths of a pixel.                           *)
(***************************************************************************)

HeurIssue(sev, title, id) ==
    [type |-> "heuristic", severity |-> sev, title |-> title, node |-> id]

\* Math.round of a length given in tenths.
MathRound10(v) == (v + 5) \div 10

IsContainerType(n) == n.type \in {"FRAME", "GROUP", "COMPONENT", "INSTANCE"}

\* [...node.children].sort((a, b) => a.x - b.x): a stable sort of node ids.
RECURSIVE InsertByX(_, _, _)
InsertByX(d, sorted, id) ==
    IF sorted = <<>> THEN <<id>>
    ELSE IF d[Head(sorted)].x <= d[id].x
         THEN <<Head(sorted)>> \o InsertByX(d, Tail(sorted), id)
         ELSE <<id>> \o sorted

RECURSIVE SortByX(_, _)
SortByX(d, ids) ==
    IF ids = <<>> THEN <<>>
    ELSE InsertByX(d, SortByX(d, SubSeq(ids, 1, Len(ids) - 1)), ids[Len(ids)])

\* spacings.add(v) that keeps a value already there a second time.
SetAddAgain(list, v) == Append(list, v)

\* spacings.add(v) on a Set<number> kept in insertion order.
SetAdd(list, v) == IF \E i \in DOMAIN list : list[i] = v THEN list ELSE Append(list, v)

\* The for loop of checkConsistency over the sorted children, from index i.
RECURSIVE Spacings(_, _, _, _)
Spacings(d, sortedByX, i, acc) ==
    IF i > Len(sortedByX) THEN acc
    ELSE LET prevNode == d[sortedByX[i - 1]]
             currNode == d[sortedByX[i]]
             spacing == currNode.x - (prevNode.x + prevNode.width)
         IN Spacings(d, sortedByX, i + 1,
                     IF spacing > 0 THEN SetAdd(acc, MathRound10(spacing)) ELSE acc)

\* The distinct spacings checkConsistency collects for node t.
NodeSpacings(d, t) == Spacings(d, SortByX(d, ChildrenOf(d, t)), 2, <<>>)

checkConsistency(d, t) ==
    IF HasChildrenProp(d[t]) /\ Len(ChildrenOf(d, t)) > 2 /\ IsContainerType(d[t])
       /\ Len(NodeSpacings(d, t)) > 2
    THEN <<[type |-> "heuristic", severity |-> "info", title |-> "Inconsistent spacing",
            node |-> t, spacings |-> NodeSpacings(d, t)]>>
    ELSE <<>>

\* node.children.some(child => name of child includes one of words)
SomeChildNamed(d, t, words) ==
    \E i \in DOMAIN d : d[i].parent = t /\ NameHasAny(d[i], words)

checkVisibilityOfSystemStatus(d, t) ==
    IF NameHasAny(d[t], {W_form}) /\ HasChildrenProp(d[t])
       /\ SomeChildNamed(d, t, {W_input, W_field, W_text})
       /\ ~SomeChildNamed(d, t, {W_status, W_feedback, W_error, W_success})
    THEN <<HeurIssue("info", "Missing feedback mechanism", t)>>
    ELSE <<>>

checkUserControlAndFreedom(d, t) ==
    IF NameHasAny(d[t], {W_modal, W_dialog, W_popup}) /\ HasChildrenProp(d[t])
       /\ ~SomeChildNamed(d, t, {W_close, W_cancel, W_dismiss, W_times, W_x})
    THEN <<HeurIssue("warning", "Missing close option", t)>>
    ELSE <<>>

\* node.parent.children.some(child => child !== node && pred(child)); the
\* audited root has no sibling in the model.
SomeSibling(d, t, Pred(_)) ==
    \E i \in DOMAIN d : i # t /\ d[t].parent # 0 /\ d[i].parent = d[t].parent /\ Pred(d[i])

\* The condition of checkErrorPrevention: && binds tighter than ||.
ErrorPreventionApplies(n) ==
    \/ (NameHasAny(n, {W_delete, W_remove, W_destroy}) /\ n.type = "INSTANCE")
    \/ n.type = "COMPONENT"

checkErrorPrevention(d, t) ==
    LET IsConfirmation(c) == NameHasAny(c, {W_confirm, W_verification, W_are_you_sure})
    IN IF ErrorPreventionApplies(d[t]) /\ ~SomeSibling(d, t, IsConfirmation)
       THEN <<HeurIssue("warning", "Destructive action without confirmation", t)>>
       ELSE <<>>

\* The condition of checkRecognitionOverRecall: && binds tighter than ||.
RecognitionApplies(n) ==
    \/ (NameHasAny(n, {W_input, W_field, W_textbox}) /\ n.type = "INSTANCE")
    \/ n.type = "COMPONENT"
    \/ n.type = "RECTANGLE"

checkRecognitionOverRecall(d, t) ==
    LET IsLabel(c) == c.type = "TEXT" \/ NameHasAny(c, {W_label})
    IN IF RecognitionApplies(d[t]) /\ ~SomeSibling(d, t, IsLabel)
       THEN <<HeurIssue("warning", "Missing input label", t)>>
       ELSE <<>>

RECURSIVE SumLengths(_, _)
SumLengths(d, ids) ==
    IF ids = <<>> THEN 0
    ELSE Len(d[Head(ids)].characters) + SumLengths(d, Tail(ids))

checkAestheticAndMinimalistDesign(d, t) ==
    LET textNodes == SelectSeq(ChildrenOf(d, t), LAMBDA c : d[c].type = "TEXT")
    IN IF IsContainerType(d[t]) /\ HasChildrenProp(d[t])
          /\ Len(textNodes) > 5 /\ SumLengths(d, textNodes) > 500
       THEN <<HeurIssue("info", "Text-heavy interface", t)>>
       ELSE <<>>

\* analyzeHeuristics(node, settings): the node's own issues, then its
\* children's, in order.
RECURSIVE analyzeHeuristics(_, _, _)
analyzeHeuristics(d, t, s) ==
    IF ~s.heuristicChecks THEN <<>>
    ELSE LET own ==
                 checkConsistency(d, t)
                 \o checkVisibilityOfSystemStatus(d, t)
                 \o checkUserControlAndFreedom(d, t)
                 \o checkErrorPrevention(d, t)
                 \o checkRecognitionOverRecall(d, t)
                 \o checkAestheticAndMinimalistDesign(d, t)
             RECURSIVE OverChildren(_)
             OverChildren(cs) ==
                 IF cs = <<>> THEN <<>>
                 ELSE analyzeHeuristics(d, Head(cs), s) \o OverChildren(Tail(cs))
         IN own \o (IF HasChildrenProp(d[t]) THEN OverChildren(ChildrenOf(d, t)) ELSE <<>>)


(***************************************************************************)
(* analyzeFrame (frame audit)                                              *)
(***************************************************************************)

\* The Settings record (types.ts).
MakeSettings(acc, heur, seo, perf, rem, key) ==
    [accessibilityChecks |-> acc, heuristicChecks |-> heur, seoChecks |-> seo,
     performanceChecks |-> perf, exportFormat |-> "markdown",
     includeScreenshots |-> FALSE, includeRemediation |-> rem,
     lighthouseApiKey |-> key, useAI |-> FALSE]

\* analyzeFrame(node, settings): the AuditResult; a field the returned
\* object does not set is Undefined.
analyzeFrame(d, root, s) ==
    LET accessibilityIssues == analyzeAccessibility(d, root, s)
        heuristicIssues == analyzeHeuristics(d, root, s)
        allIssues == accessibilityIssues \o heuristicIssues
        accessibilityScore == calculateAccessibilityScore(accessibilityIssues)
        heuristicsScore == calculateHeuristicsScore(heuristicIssues)
        sum == accessibilityScore + (IF s.heuristicChecks THEN heuristicsScore ELSE 0)
        divisor == 1 + (IF s.heuristicChecks THEN 1 ELSE 0)
        overallScore == RoundDiv(sum, divisor)
    IN [accessibility |-> accessibilityScore,
        heuristics |-> IF s.heuristicChecks THEN heuristicsScore ELSE Undefined,
        seo |-> Undefined,
        performance |-> Undefined,
        overall |-> overallScore,
        issues |-> allIssues]

\* The text nodes checkTextContrast judges during analyzeAccessibility.
JudgedTextNodes(d, s) ==
    IF ~s.accessibilityChecks THEN {}
    ELSE {t \in DOMAIN d : IsArray(d[t].fills) /\ ContrastJudged(d, t)}

(***************************************************************************)
(* The element trees and settings the frame audit is run on                *)
(***************************************************************************)

N_Page == <<"P", "a", "g", "e">>

N_Form == <<"F", "o", "r", "m">>

N_Modal == <<"M", "o", "d", "a", "l">>

N_Delete == <<"D", "e", "l", "e", "t", "e">>

N_Confirm == <<"C", "o", "n", "f", "i", "r", "m">>

N_Input == <<"I", "n", "p", "u", "t">>

N_Label == <<"L", "a", "b", "e", "l">>

N_Close == <<"C", "l", "o", "s", "e">>

N_Text == <<"T", "e", "x", "t">>

N_Frame == <<"F", "r", "a", "m", "e">>

N_Group == <<"G", "r", "o", "u", "p">>

\* Longest chain of ancestors above a text node in a generated tree.
MaxDepth == 2

\* Most children of the root in a generated tree of named elements.
MaxChildren == 2

\* Pixels to tenths of a pixel.
Px(n) == n * 10

\* fills of an ancestor: none, no fills property (a group), one visible
\* solid, one hidden solid, a gradient before a solid, a hidden solid
\* before a visible one, a gradient alone.
AncestorFills ==
    {Fills(<<>>), NoFills, Fills(<<SolidPaint(Black, TRUE)>>),
     Fills(<<SolidPaint(Grey50, FALSE)>>),
     Fills(<<GradientPaint, SolidPaint(White, TRUE)>>),
     Fills(<<SolidPaint(Black, FALSE), SolidPaint(Grey60, TRUE)>>),
     Fills(<<GradientPaint>>)}

TextFills ==
    {Fills(<<SolidPaint(Black, TRUE)>>), Fills(<<SolidPaint(Grey50, TRUE)>>),
     Fills(<<SolidPaint(White, FALSE), SolidPaint(Grey50, TRUE)>>), Fills(<<>>),
     MixedFills, Fills(<<GradientPaint, SolidPaint(Grey60, TRUE)>>)}

FontSizes == {10, 14, 18, 24, Mixed}

FontWeights == {400, 700}

AncestorNode(parent, fills) ==
    Node(parent, IF fills = NoFills THEN "GROUP" ELSE "FRAME",
         IF fills = NoFills THEN N_Group ELSE N_Frame,
         fills, Undefined, Undefined, <<>>, 0, Px(200), Px(100), 0)

TextNode(parent, fills, fontSize, fontWeight) ==
    Node(parent, "TEXT", N_Text, fills, fontSize, fontWeight, N_Text, 0, Px(60), Px(20), 0)

\* The text nodes put under a chain of k ancestors: every fill, size and
\* weight under a single ancestor, two solid colors under a longer chain.
TextVariants(k) ==
    IF k = 1 THEN TextFills \X FontSizes \X FontWeights
    ELSE {<<Fills(<<SolidPaint(c, TRUE)>>), 14, 400>> : c \in {Black, Grey50}}

\* A chain of k ancestors (the root first) above one text node.
ChainDocs(k) ==
    {[i \in 1..(k + 1) |->
        IF i <= k THEN AncestorNode(i - 1, af[i])
        ELSE TextNode(k, tv[1], tv[2], tv[3])] :
     af \in [1..k -> AncestorFills], tv \in TextVariants(k)}

ContrastDocs == UNION {ChainDocs(k) : k \in 1..MaxDepth}

\* The children a tree of named elements is built from.
ChildKinds ==
    {Node(1, "INSTANCE", N_Delete, Fills(<<>>), Undefined, Undefined, <<>>, 0, Px(80), Px(48), 0),
     Node(1, "INSTANCE", N_Confirm, Fills(<<>>), Undefined, Undefined, <<>>,
          Px(100), Px(80), Px(48), 0),
     Node(1, "RECTANGLE", N_Input, Fills(<<SolidPaint(White, TRUE)>>), Undefined, Undefined, <<>>,
          0, Px(120), Px(48), 0),
     Node(1, "TEXT", N_Label, Fills(<<SolidPaint(Black, TRUE)>>), 10, 400, N_Label,
          0, Px(60), Px(12), 0),
     Node(1, "TEXT", N_Text, Fills(<<SolidPaint(Grey60, TRUE)>>), 14, 400, N_Text,
          0, Px(60), Px(20), 0),
     Node(1, "INSTANCE", N_Close, Fills(<<SolidPaint(Black, TRUE)>>), Undefined, Undefined, <<>>,
          Px(150), Px(20), Px(20), 1)}

RootNode(name) ==
    Node(0, "FRAME", name, Fills(<<SolidPaint(White, TRUE)>>), Undefined, Undefined, <<>>,
         0, Px(400), Px(300), 0)

NamedDocs ==
    {<<RootNode(name)>> \o kids :
        name \in {N_Page, N_Form, N_Modal},
        kids \in UNION {[1..k -> ChildKinds] : k \in 0..MaxChildren}}

N_Card == <<"C", "a", "r", "d">>

\* Components and instances with and without a word the heuristic checks
\* look for, and a text.
ComponentKinds ==
    {Node(1, type, name, Fills(<<>>), Undefined, Undefined, <<>>, 0, Px(80), Px(48), 0) :
        type \in {"COMPONENT", "INSTANCE"}, name \in {N_Card, N_Delete, N_Input}}
    \cup {Node(1, "INSTANCE", N_Confirm, Fills(<<>>), Undefined, Undefined, <<>>,
                Px(100), Px(80), Px(48), 0),
          Node(1, "TEXT", N_Label, Fills(<<SolidPaint(Black, TRUE)>>), 14, 400, N_Label,
               0, Px(60), Px(20), 0)}

ComponentDocs ==
    {<<RootNode(N_Page)>> \o kids :
        kids \in UNION {[1..k -> ComponentKinds] : k \in 1..MaxChildren}}

\* The largest number of children of a frame whose spacing is checked.
MaxSpaced == 4

\* The x positions of spaced children, in tenths of a pixel: 20.4 and 20
\* round to the same gap behind a child of width 10 at 0.
SpacedX == {0, 200, 204, 400, 500, 600, 950}

SpacedChild(x) ==
    Node(1, "RECTANGLE", N_Group, Fills(<<>>), Undefined, Undefined, <<>>, x, Px(10), Px(10), 0)

\* A frame with 3..MaxSpaced children of width 10 at any of the positions,
\* in any order.
SpacingDocs ==
    {<<RootNode(N_Page)>> \o [i \in DOMAIN xs |-> SpacedChild(xs[i])] :
        xs \in UNION {[1..k -> SpacedX] : k \in 3..MaxSpaced}}

\* A solid visible paint whose color is missing: malformed fill data.
MalformedPaint == SolidPaint(Null, TRUE)

\* A frame with two texts: the first with malformed fill data, alone or
\* behind a hidden paint, and at either side of the text size limit; the
\* second well-formed, with a contrast that is or is not sufficient.
MalformedDocs ==
    {<<RootNode(N_Page), TextNode(1, Fills(bad), fs, 400), TextNode(1, Fills(<<SolidPaint(c, TRUE)>>), 14, 400)>> :
        bad \in {<<MalformedPaint>>, <<SolidPaint(Black, FALSE), MalformedPaint>>},
        fs \in {10, 14}, c \in {Black, Grey60}}

ToggleSettings ==
    {MakeSettings(a, h, TRUE, TRUE, TRUE, <<>>) : a \in BOOLEAN, h \in BOOLEAN}

InitFrame ==
    /\ WalkIdle
    /\ ExportIdle
    /\ SettingsIdle
    /\ \/ doc \in ContrastDocs /\ settings = MakeSettings(TRUE, TRUE, TRUE, TRUE, TRUE, <<>>)
       \/ doc \in NamedDocs /\ settings \in ToggleSettings
       \/ doc \in SpacingDocs /\ settings = MakeSettings(TRUE, TRUE, TRUE, TRUE, TRUE, <<>>)
       \/ doc \in MalformedDocs /\ settings \in ToggleSettings
       \/ doc \in ComponentDocs /\ settings = MakeSettings(TRUE, TRUE, TRUE, TRUE, TRUE, <<>>)
    /\ frameResult = NoResult
    /\ bgUsed = <<>>
    /\ auditFrameResult = NoResult
    /\ ScoreIdle
    /\ WcagIdle
    /\ WebIdle
    /\ PluginIdle

\* analyzeFrame(root, settings) runs to its return.
AnalyzeFrame ==
    /\ frameResult = NoResult
    /\ doc # <<>>
    /\ frameResult' = analyzeFrame(doc, 1, settings)
    /\ bgUsed' = [t \in JudgedTextNodes(doc, settings) |-> TextBackground(doc, t)]
    /\ UNCHANGED <<doc, settings, auditFrameResult, scoreVars, wcagVars, webVars, pluginVars, settingsVars, exportVars, walkVars>>

NextFrame == AnalyzeFrame

SpecFrame == InitFrame /\ [][NextFrame]_vars


\* C3 (as claimed): the overall score of analyzeFrame is the rounded mean
\* of the scores of exactly the enabled categories; a disabled category is
\* left out of the average.
C3_OverallIsMeanOfEnabled ==
    frameResult # NoResult =>
        LET accS == calculateAccessibilityScore(analyzeAccessibility(doc, 1, settings))
            heurS == calculateHeuristicsScore(analyzeHeuristics(doc, 1, settings))
            enabled == {c \in {"accessibility", "heuristics"} :
                          \/ c = "accessibility" /\ settings.accessibilityChecks
                          \/ c = "heuristics" /\ settings.heuristicChecks}
            sum == (IF "accessibility" \in enabled THEN accS ELSE 0)
                   + (IF "heuristics" \in enabled THEN heurS ELSE 0)
        IN enabled # {} => frameResult.overall = RoundDiv(sum, Cardinality(enabled))

\* The strict ancestors of t, nearest first, as k-th parents.
RECURSIVE AncestorAt(_, _, _)
AncestorAt(d, t, k) ==
    IF k = 0 THEN t
    ELSE LET below == AncestorAt(d, t, k - 1)
         IN IF below = 0 THEN 0 ELSE d[below].parent

HasVisibleSolid(n) ==
    /\ n.fills.kind = "array"
    /\ \E i \in DOMAIN n.fills.paints :
          n.fills.paints[i].type = "SOLID" /\ n.fills.paints[i].visible

FirstVisibleSolidColor(n) ==
    LET ok == {i \in DOMAIN n.fills.paints :
                 n.fills.paints[i].type = "SOLID" /\ n.fills.paints[i].visible}
    IN n.fills.paints[CHOOSE i \in ok : \A j \in ok : i <= j].color

\* The background the claim describes: the first visible solid fill of the
\* nearest strict ancestor that has one, white when there is none.
NearestSolidBackground(d, t) ==
    LET ks == {k \in 1..Len(d) :
                 AncestorAt(d, t, k) # 0 /\ HasVisibleSolid(d[AncestorAt(d, t, k)])}
    IN IF ks = {} THEN Color(100, 100, 100)
       ELSE FirstVisibleSolidColor(d[AncestorAt(d, t, CHOOSE k \in ks : \A j \in ks : k <= j)])

\* C9: the background checkTextContrast judges a text node against is the
\* first visible solid fill of the nearest ancestor that has one, walking
\* up from the parent, and exactly white (1,1,1) when no ancestor has one.
C9_BackgroundIsNearestSolid ==
    frameResult # NoResult =>
        \A t \in DOMAIN bgUsed : bgUsed[t] = NearestSolidBackground(doc, t)

\* C9 witness: a judged text node whose parent has fills but no visible
\* solid one, so that the background comes from the grandparent's second
\* paint; and one with no solid ancestor at all, judged against white.
C9_Witness ==
    /\ frameResult # NoResult
    /\ \E t \in DOMAIN bgUsed :
          /\ doc[t].parent # 0
          /\ doc[doc[t].parent].fills.kind = "array"
          /\ doc[doc[t].parent].fills.paints # <<>>
          /\ ~HasVisibleSolid(doc[doc[t].parent])
          /\ bgUsed[t] = Grey60

\* C9 witness of the fallback: no ancestor has a visible solid fill and the
\* text is judged against white.
C9_WitnessWhite ==
    /\ frameResult # NoResult
    /\ \E t \in DOMAIN bgUsed :
          /\ \A k \in 1..Len(doc) :
                AncestorAt(doc, t, k) # 0 => ~HasVisibleSolid(doc[AncestorAt(doc, t, k)])
          /\ bgUsed[t] = White


(***************************************************************************)
(* auditFrame of the plugin's message handler (code.ts) and utils.ts       *)
(***************************************************************************)

\* frame.findAll(n => true): the descendants of t in document order, t
\* itself left out.
RECURSIVE Descendants(_, _)
Descendants(d, t) ==
    LET RECURSIVE Over(_)
        Over(cs) == IF cs = <<>> THEN <<>>
                    ELSE <<Head(cs)>> \o Descendants(d, Head(cs)) \o Over(Tail(cs))
    IN Over(ChildrenOf(d, t))

\* relativeLuminance(getRGB(color)) of utils.ts, in units of 10^-7: the
\* channel is scaled to 255 and back before it is made linear.
relativeLuminance(rgb) ==
    2126 * convertChannel(rgb.r) + 7152 * convertChannel(rgb.g)
        + 722 * convertChannel(rgb.b)

\* contrastRatio(lum1, lum2) < required, required in tenths.
ContrastRatioBelow(lum1, lum2, required10) ==
    LET lighter == Max(lum1, lum2)
        darker == Min(lum1, lum2)
    IN (lighter + 500000) * 10 < required10 * (darker + 500000)

\* findbackground(node): the parent's first paint when it is solid, else
\* a white solid paint.
findbackground(d, t) ==
    LET p == d[t].parent
    IN IF p # 0 /\ IsArray(d[p].fills) /\ Len(d[p].fills.paints) > 0
          /\ d[p].fills.paints[1].type = "SOLID"
       THEN d[p].fills.paints[1]
       ELSE [type |-> "SOLID", visible |-> TRUE, color |-> White]

\* The text nodes the contrast loop of auditFrame does not skip.
AuditContrastJudged(d, t) ==
    /\ IsArray(d[t].fills)
    /\ Len(d[t].fills.paints) > 0
    /\ d[t].fills.paints[1].type = "SOLID"

\* The required ratio of the contrast loop of auditFrame, in tenths.
AuditRequiredRatio10 == 45

\* The contrast loop of auditFrame: the text nodes pushed to contrastIssues.
AuditContrastIssues(d, textNodes) ==
    SelectSeq(textNodes,
              LAMBDA t : /\ AuditContrastJudged(d, t)
                         /\ ContrastRatioBelow(relativeLuminance(d[t].fills.paints[1].color),
                                               relativeLuminance(findbackground(d, t).color),
                                               AuditRequiredRatio10))

\* String.prototype.trim
RECURSIVE TrimLeft(_)
TrimLeft(str) == IF str # <<>> /\ Head(str) = " " THEN TrimLeft(Tail(str)) ELSE str

RECURSIVE TrimRight(_)
TrimRight(str) ==
    IF str # <<>> /\ str[Len(str)] = " " THEN TrimRight(SubSeq(str, 1, Len(str) - 1)) ELSE str

Trim(str) == TrimRight(TrimLeft(str))

W_click_here == <<"c", "l", "i", "c", "k", " ", "h", "e", "r", "e">>

W_submit == <<"s", "u", "b", "m", "i", "t">>

W_learn_more == <<"l", "e", "a", "r", "n", " ", "m", "o", "r", "e">>

W_go == <<"g", "o">>

W_question == <<"?">>

W_learn == <<"l", "e", "a", "r", "n">>

genericButtonLabels == {W_button, W_click_here, W_submit, W_learn_more, W_go}

\* The generic-label loop of auditFrame: the labels pushed to badButtons.
AuditBadButtons(d, frame) ==
    LET buttonNodes ==
            SelectSeq(Descendants(d, frame),
                      LAMBDA n : /\ d[n].type \in {"INSTANCE", "COMPONENT", "FRAME"}
                                 /\ Includes(toLowerCase(d[n].name), W_button))
        TextsOf(b) == SelectSeq(Descendants(d, b), LAMBDA n : d[n].type = "TEXT")
        bad == SelectSeq(buttonNodes,
                         LAMBDA b : /\ Len(TextsOf(b)) > 0
                                    /\ Trim(toLowerCase(d[TextsOf(b)[1]].characters))
                                          \in genericButtonLabels)
    IN [i \in DOMAIN bad |-> d[TextsOf(bad[i])[1]].characters]

\* const jargon of auditFrame
jargon == <<<<"s", "y", "s", "c", "a", "l", "l">>, <<"b", "a", "c", "k", "e", "n", "d">>, <<"c", "a", "c", "h", "e">>, <<"A", "P", "I">>, <<"l", "a", "m", "b", "d", "a">>, <<"f", "r", "a", "m", "e", "w", "o", "r", "k">>, <<"a", "s", "y", "n", "c">>>>

\* str.split(/\s+/): cur is the word being read, inWs whether the last
\* character was white space.
RECURSIVE SplitWs(_, _, _)
SplitWs(str, cur, inWs) ==
    IF str = <<>> THEN <<cur>>
    ELSE IF Head(str) = " "
         THEN IF inWs THEN SplitWs(Tail(str), cur, TRUE)
              ELSE <<cur>> \o SplitWs(Tail(str), <<>>, TRUE)
         ELSE SplitWs(Tail(str), Append(cur, Head(str)), FALSE)

\* word.replace(/[^a-zA-Z]/g, '')
StripNonLetters(word) == SelectSeq(word, LAMBDA c : c \in Letters)

\* jargon.includes(w)
JargonIncludes(w) == \E i \in DOMAIN jargon : jargon[i] = w

\* words.forEach of the jargon check: the words of one text node pushed to
\* foundJargon.
FoundInText(characters) ==
    SelectSeq(SplitWs(toLowerCase(characters), <<>>, FALSE),
              LAMBDA word : JargonIncludes(StripNonLetters(word)))

\* textNodes.forEach of the jargon check.
RECURSIVE FoundJargon(_, _)
FoundJargon(d, textNodes) ==
    IF textNodes = <<>> THEN <<>>
    ELSE FoundInText(d[Head(textNodes)].characters) \o FoundJargon(d, Tail(textNodes))

\* Array.from(new Set(list)): the first occurrence of each element.
RECURSIVE Unique(_, _)
Unique(list, acc) ==
    IF list = <<>> THEN acc ELSE Unique(Tail(list), SetAdd(acc, Head(list)))

\* The colors and font styles auditFrame counts.
NodeSolidColors(n) ==
    IF IsArray(n.fills)
    THEN {n.fills.paints[k].color :
            k \in {j \in DOMAIN n.fills.paints : n.fills.paints[j].type = "SOLID"}}
    ELSE {}

AuditColors(d, allNodes) == UNION {NodeSolidColors(d[allNodes[i]]) : i \in DOMAIN allNodes}

AuditFontStyles(d, textNodes) ==
    {<<d[textNodes[i]].fontName, d[textNodes[i]].fontSize>> : i \in DOMAIN textNodes}

\* The help check of auditFrame.
AuditHelpFound(d, frame, textNodes) ==
    \/ \E i \in DOMAIN textNodes :
          \E w \in {W_help, W_support, W_question, W_learn} :
             Includes(toLowerCase(d[textNodes[i]].characters), w)
    \/ \E i \in DOMAIN Descendants(d, frame) :
          NameHasAny(d[Descendants(d, frame)[i]], {W_help, W_support})

\* auditFrame(frame): what the returned object is built from.
auditFrame(d, frame) ==
    LET allNodes == Descendants(d, frame)
        textNodes == SelectSeq(allNodes, LAMBDA n : d[n].type = "TEXT")
    IN [type |-> "frame",
        texts |-> [i \in DOMAIN textNodes |-> d[textNodes[i]].characters],
        fontSizes |-> [i \in DOMAIN textNodes |-> d[textNodes[i]].fontSize],
        contrastIssues |-> AuditContrastIssues(d, textNodes),
        badButtons |-> AuditBadButtons(d, frame),
        uniqueJargon |-> Unique(FoundJargon(d, textNodes), <<>>),
        colors |-> Cardinality(AuditColors(d, allNodes)),
        fontStyles |-> Cardinality(AuditFontStyles(d, textNodes)),
        helpFound |-> AuditHelpFound(d, frame, textNodes)]

\* The texts of the generated text nodes.
TextCacheApi == <<"W", "e", " ", "u", "s", "e", " ", "a", " ", "c", "a", "c", "h", "e", " ", "a", "n", "d", " ", "a", "n", " ", "A", "P", "I", " ", "h", "e", "r", "e">>

TextRepeat == <<"c", "a", "c", "h", "e", ",", " ", "C", "a", "c", "h", "e", " ", "c", "a", "c", "h", "e">>

TextBackend == <<"t", "h", "e", " ", "b", "a", "c", "k", "e", "n", "d", " ", "a", "p", "i", ".">>

TextPlain == <<"H", "e", "l", "l", "o", " ", "w", "o", "r", "l", "d">>

TextSpaces == <<" ", "a", "s", "y", "n", "c", " ", " ", "l", "a", "m", "b", "d", "a">>

TextHelp == <<"N", "e", "e", "d", " ", "h", "e", "l", "p", "?">>

TextPool == {TextCacheApi, TextRepeat, TextBackend, TextPlain, TextSpaces, TextHelp, <<>>}

\* Most text nodes in a generated tree of texts.
MaxTexts == 2

\* A frame holding text nodes with the given texts.
TextDocs ==
    {<<RootNode(N_Page)>> \o
       [i \in DOMAIN ts |->
          Node(1, "TEXT", N_Text, Fills(<<SolidPaint(Black, TRUE)>>), 16, 400, ts[i],
               0, Px(200), Px(20), 0)] :
     ts \in UNION {[1..k -> TextPool] : k \in 1..MaxTexts}}

InitAuditFrame ==
    /\ WalkIdle
    /\ ExportIdle
    /\ SettingsIdle
    /\ doc \in ContrastDocs \cup TextDocs
    /\ settings = NoSettings
    /\ frameResult = NoResult
    /\ bgUsed = <<>>
    /\ auditFrameResult = NoResult
    /\ ScoreIdle
    /\ WcagIdle
    /\ WebIdle
    /\ PluginIdle

\* auditFrame(frame) runs to its return.
AuditFrame ==
    /\ auditFrameResult = NoResult
    /\ doc # <<>>
    /\ auditFrameResult' = auditFrame(doc, 1)
    /\ UNCHANGED <<doc, settings, frameResult, bgUsed, scoreVars, wcagVars, webVars, pluginVars, settingsVars, exportVars, walkVars>>

NextAuditFrame == AuditFrame

SpecAuditFrame == InitAuditFrame /\ [][NextAuditFrame]_vars


\* The required ratio the claim states, in tenths: 3 when font size >= 18
\* or (font size >= 14 and font weight >= 700), else 4.5.
ClaimedRequired10(fontSize, fontWeight) ==
    IF fontSize >= 18 \/ (fontSize >= 14 /\ fontWeight >= 700) THEN 30 ELSE 45

\* C8 (as claimed): every contrast checker flags a text element exactly
\* when its contrast ratio is below 3 (font size >= 18, or >= 14 and weight
\* >= 700) or below 4.5 (otherwise); here for the contrast loop of
\* auditFrame, on the ratio that loop computes.
C8_AuditFrameSamePolicy ==
    auditFrameResult # NoResult =>
        \A t \in DOMAIN doc :
            (doc[t].type = "TEXT" /\ AuditContrastJudged(doc, t) /\ doc[t].fontSize # Mixed) =>
                ((\E i \in DOMAIN auditFrameResult.contrastIssues :
                      auditFrameResult.contrastIssues[i] = t)
                 <=> ContrastRatioBelow(relativeLuminance(doc[t].fills.paints[1].color),
                                        relativeLuminance(findbackground(doc, t).color),
                                        ClaimedRequired10(doc[t].fontSize, doc[t].fontWeight)))

\* The words of all text nodes as the claim normalises them: split at
\* white space, lower-cased, non-letters stripped.
RECURSIVE NormalisedWords(_)
NormalisedWords(texts) ==
    IF texts = <<>> THEN <<>>
    ELSE LET ws == SplitWs(toLowerCase(Head(texts)), <<>>, FALSE)
         IN [i \in DOMAIN ws |-> StripNonLetters(ws[i])] \o NormalisedWords(Tail(texts))

ClaimedJargonSet == {toLowerCase(jargon[i]) : i \in DOMAIN jargon}

checkWCAGCompliance(foreground, background, fontSize, isBold) ==
    LET isLargeText == fontSize >= 24 \/ (fontSize * 100 >= 1867 /\ isBold)
        requiredRatioAA == IF isLargeText THEN 30 ELSE 45
        requiredRatioAAA == IF isLargeText THEN 45 ELSE 70
    IN [isLargeText |-> isLargeText,
        passesAA |-> ~ContrastBelow(foreground, background, requiredRatioAA),
        passesAAA |-> ~ContrastBelow(foreground, background, requiredRatioAAA),
        requiredRatio |-> requiredRatioAA]

Palette == {Black, Grey40, Grey50, Grey60, White}

InitWcag ==
    /\ WalkIdle
    /\ ExportIdle
    /\ SettingsIdle
    /\ wcagInput \in [foreground : Palette, background : Palette,
                      fontSize : {10, 14, 18, 19, 24}, isBold : BOOLEAN]
    /\ wcagResult = NoResult
    /\ ScoreIdle
    /\ DocIdle
    /\ WebIdle
    /\ PluginIdle

\* A caller applies checkWCAGCompliance to its arguments.
CheckWCAGCompliance ==
    /\ wcagResult = NoResult
    /\ wcagResult' = checkWCAGCompliance(wcagInput.foreground, wcagInput.background,
                                         wcagInput.fontSize, wcagInput.isBold)
    /\ UNCHANGED <<wcagInput, scoreVars, docVars, webVars, pluginVars, settingsVars, exportVars, walkVars>>

NextWcag == CheckWCAGCompliance

SpecWcag == InitWcag /\ [][NextWcag]_vars

\* C8 (as claimed), for checkWCAGCompliance: it passes a text exactly when
\* the ratio is at least the required ratio of the claimed policy.
C8_WcagSamePolicy ==
    wcagResult # NoResult =>
        (wcagResult.passesAA
           <=> ~ContrastBelow(wcagInput.foreground, wcagInput.background,
                              ClaimedRequired10(wcagInput.fontSize,
                                                IF wcagInput.isBold THEN 700 ELSE 400)))

\* C8 (as claimed): every contrast checker of the code base flags a text
\* exactly when its ratio is below the required ratio, 3 for font size >=
\* 18 or (font size >= 14 and weight >= 700) and 4.5 otherwise.
C8_AllCheckersSamePolicy == C8_AuditFrameSamePolicy /\ C8_WcagSamePolicy


(***************************************************************************)
(* Website audit: runLighthouseAudit, processLighthouseResults,            *)
(* runFallbackAudit (lighthouse.ts) and analyzeWebsite                     *)
(*                                                                         *)
(* Scores of the scoring service are numbers in [0,1], held in             *)
(* thousandths.  Rule ids, urls and keys are sequences of characters.      *)
(***************************************************************************)

\* The largest number of entries of a payload's audits mapping.
MaxAudits == 2

\* null where an audit score may stand.
NullScore == -3

\* Math.round(score * 100) of a score in thousandths.
Percent(score) == (score + 5) \div 10

\* String.prototype.startsWith
StartsWith(str, prefix) ==
    /\ Len(str) >= Len(prefix)
    /\ SubSeq(str, 1, Len(prefix)) = prefix

\* encodeURIComponent over the characters the urls below are made of:
\* letters, digits and - _ . ! ~ * ' ( ) stay, every other character
\* becomes its percent escape.
EscapeOf(ch) ==
    CASE ch = ":" -> <<"%", "3", "A">>
      [] ch = "/" -> <<"%", "2", "F">>
      [] ch = "?" -> <<"%", "3", "F">>
      [] ch = "&" -> <<"%", "2", "6">>
      [] ch = "=" -> <<"%", "3", "D">>
      [] ch = " " -> <<"%", "2", "0">>
      [] OTHER -> <<ch>>

RECURSIVE encodeURIComponent(_)
encodeURIComponent(str) ==
    IF str = <<>> THEN <<>>
    ELSE EscapeOf(Head(str)) \o encodeURIComponent(Tail(str))

NoKey == <<>>

SomeKey == <<"k", "1">>

Url_plain == <<"a", ".", "i", "o">>

Url_query == <<"a", ".", "i", "o", "/", "?", "q", "=", "1">>

\* The request runLighthouseAudit builds: the encoded url, the category
\* selectors in order, and the key, appended only when one is set.
LighthouseRequest(url, s) ==
    [url |-> encodeURIComponent(url),
     strategy |-> "mobile",
     category |-> (IF s.accessibilityChecks THEN <<"accessibility">> ELSE <<>>)
                  \o (IF s.seoChecks THEN <<"seo">> ELSE <<>>)
                  \o (IF s.performanceChecks THEN <<"performance">> ELSE <<>>)
                  \o <<"best-practices">>,
     hasKey |-> s.lighthouseApiKey # NoKey,
     key |-> s.lighthouseApiKey]

\* Rule ids.
Id_label == <<"l", "a", "b", "e", "l">>

Id_list == <<"l", "i", "s", "t">>

Id_viewport == <<"v", "i", "e", "w", "p", "o", "r", "t">>

Id_meta_description ==
    <<"m", "e", "t", "a", "-", "d", "e", "s", "c", "r", "i", "p", "t", "i", "o", "n">>

Id_seo_meta == <<"s", "e", "o", "-", "m", "e", "t", "a">>

Id_seo_meta_description ==
    <<"s", "e", "o", "-", "m", "e", "t", "a", "-", "d", "e", "s", "c", "r", "i", "p", "t", "i", "o", "n">>

Id_performance_budget ==
    <<"p", "e", "r", "f", "o", "r", "m", "a", "n", "c", "e", "-", "b", "u", "d", "g", "e", "t">>

Id_load_fast == <<"l", "o", "a", "d", "-", "f", "a", "s", "t">>

Id_seo == <<"s", "e", "o">>

Id_preload_fonts == <<"p", "r", "e", "l", "o", "a", "d", "-", "f", "o", "n", "t", "s">>

Id_speed_index == <<"s", "p", "e", "e", "d", "-", "i", "n", "d", "e", "x">>

P_seo == <<"s", "e", "o", "-">>

P_performance == <<"p", "e", "r", "f", "o", "r", "m", "a", "n", "c", "e", "-">>

P_speed == <<"s", "p", "e", "e", "d", "-">>

P_load == <<"l", "o", "a", "d", "-">>

\* generateRemediation(id): the entry of remediationMap, or the general
\* advice; of the map's entries, those the rule ids above can name.
generateRemediation(id) ==
    CASE id = Id_label -> "Associate labels with form controls using the for attribute or nesting."
      [] id = Id_list -> "Use proper list markup (ul, ol, li) for lists."
      [] id = Id_viewport -> "Configure the viewport for responsive design."
      [] id = Id_meta_description -> "Add a meta description tag to improve SEO."
      [] OTHER -> "Review the issue and make appropriate changes to improve accessibility, performance, or SEO."

\* The issue type by where the marker stands in the rule id, at its start
\* or further in.
AuditTypeAnywhere(id) ==
    IF Includes(id, P_seo) THEN "seo"
    ELSE IF Includes(id, P_performance) \/ Includes(id, P_speed) \/ Includes(id, P_load)
         THEN "performance"
         ELSE "accessibility"

\* The issue type processLighthouseResults gives a rule id.
AuditType(id) ==
    IF StartsWith(id, P_seo) THEN "seo"
    ELSE IF StartsWith(id, P_performance) \/ StartsWith(id, P_speed) \/ StartsWith(id, P_load)
         THEN "performance"
         ELSE "accessibility"

\* The skip test without the test for a null score.
AuditSkippedNullKept(entry, s) ==
    \/ entry.score = 1000
    \/ AuditType(entry.id) = "accessibility" /\ ~s.accessibilityChecks
    \/ AuditType(entry.id) = "seo" /\ ~s.seoChecks
    \/ AuditType(entry.id) = "performance" /\ ~s.performanceChecks

\* Whether the forEach callback returns before pushing an issue.
AuditSkipped(entry, s) ==
    \/ entry.score = 1000
    \/ entry.score = NullScore
    \/ AuditType(entry.id) = "accessibility" /\ ~s.accessibilityChecks
    \/ AuditType(entry.id) = "seo" /\ ~s.seoChecks
    \/ AuditType(entry.id) = "performance" /\ ~s.performanceChecks

\* The severity with the thresholds themselves counted below.
AuditSeverityInclusive(score) ==
    IF score # NullScore /\ score <= 500 THEN "error"
    ELSE IF score # NullScore /\ score <= 900 THEN "warning"
         ELSE "info"

AuditSeverity(score) ==
    IF score # NullScore /\ score < 500 THEN "error"
    ELSE IF score # NullScore /\ score < 900 THEN "warning"
         ELSE "info"

NoRemediation == "undefined"

\* The issue with the advice attached whatever includeRemediation is.
AuditIssueAlwaysAdvice(entry, s) ==
    [type |-> AuditType(entry.id),
     severity |-> AuditSeverity(entry.score),
     title |-> entry.title,
     description |-> entry.description,
     remediation |-> generateRemediation(entry.id)]

AuditIssue(entry, s) ==
    [type |-> AuditType(entry.id),
     severity |-> AuditSeverity(entry.score),
     title |-> entry.title,
     description |-> entry.description,
     remediation |-> IF s.includeRemediation THEN generateRemediation(entry.id)
                     ELSE NoRemediation]

RECURSIVE AuditIssues(_, _)
AuditIssues(entries, s) ==
    IF entries = <<>> THEN <<>>
    ELSE (IF AuditSkipped(Head(entries), s) THEN <<>> ELSE <<AuditIssue(Head(entries), s)>>)
         \o AuditIssues(Tail(entries), s)

\* (data.categories.c && data.categories.c.score) || 0, as a percentage;
\* a category the payload lacks has score Undefined.
CategoryPercent(score) == IF score = Undefined THEN 0 ELSE Percent(score)

\* processLighthouseResults(data, settings) for a payload that has both
\* categories and audits.
processLighthouseResults(data, s) ==
    LET accessibilityScore == CategoryPercent(data.categories.accessibility)
        seoScore == IF s.seoChecks THEN CategoryPercent(data.categories.seo) ELSE 0
        performanceScore ==
            IF s.performanceChecks THEN CategoryPercent(data.categories.performance) ELSE 0
        sum == accessibilityScore + (IF s.seoChecks THEN seoScore ELSE 0)
               + (IF s.performanceChecks THEN performanceScore ELSE 0)
        divisor == 1 + (IF s.seoChecks THEN 1 ELSE 0)
                   + (IF s.performanceChecks THEN 1 ELSE 0)
    IN [accessibility |-> accessibilityScore,
        heuristics |-> Undefined,
        seo |-> IF s.seoChecks THEN seoScore ELSE Undefined,
        performance |-> IF s.performanceChecks THEN performanceScore ELSE Undefined,
        overall |-> RoundDiv(sum, divisor),
        issues |-> AuditIssues(data.audits.entries, s)]

\* The four issues of runFallbackAudit, in order.
FallbackIssues ==
    << [type |-> "accessibility", severity |-> "warning",
        title |-> "Low contrast elements detected",
        description |-> "Some text elements may have insufficient contrast with their background.",
        remediation |-> "Ensure all text has a contrast ratio of at least 4.5:1 with its background."],
       [type |-> "accessibility", severity |-> "error",
        title |-> "Missing image alt text",
        description |-> "Some images on the page lack alternative text descriptions.",
        remediation |-> "Add descriptive alt text to all images that convey information."],
       [type |-> "seo", severity |-> "warning",
        title |-> "Missing meta description",
        description |-> "The page lacks a meta description tag for search engines.",
        remediation |-> "Add a concise, descriptive meta description tag to improve SEO."],
       [type |-> "performance", severity |-> "warning",
        title |-> "Large image files",
        description |-> "Some images are not optimized for web delivery.",
        remediation |-> "Compress images and consider using WebP format for better performance."] >>

FallbackKeeps(issue, s) ==
    /\ ~(issue.type = "accessibility" /\ ~s.accessibilityChecks)
    /\ ~(issue.type = "seo" /\ ~s.seoChecks)
    /\ ~(issue.type = "performance" /\ ~s.performanceChecks)

runFallbackAudit(url, s) ==
    [accessibility |-> 75,
     heuristics |-> Undefined,
     seo |-> IF s.seoChecks THEN 80 ELSE Undefined,
     performance |-> IF s.performanceChecks THEN 65 ELSE Undefined,
     overall |-> 73,
     issues |-> SelectSeq(FallbackIssues, LAMBDA issue : FallbackKeeps(issue, s))]


\* What a call ended with: a returned value or a thrown error.
NoError == [none |-> TRUE]

Returned(value) == [status |-> "returned", value |-> value, error |-> NoError]

Thrown(error) == [status |-> "threw", value |-> NoResult, error |-> error]

\* An Error: its message is a sequence of text pieces.
Error(name, message) == [name |-> name, message |-> message]

\* What the fetch of a request can settle with.  A rejected fetch has
\* kind "rejected"; a response has ok, status and a body that parses as
\* JSON (json) to data, or does not.
NoCategories == [present |-> FALSE, accessibility |-> Undefined, seo |-> Undefined,
                 performance |-> Undefined]

Categories(a, se, pe) == [present |-> TRUE, accessibility |-> a, seo |-> se, performance |-> pe]

NoAudits == [present |-> FALSE, entries |-> <<>>]

Audits(entries) == [present |-> TRUE, entries |-> entries]

Payload(error, categories, audits) ==
    [error |-> error, categories |-> categories, audits |-> audits]

NoData == Payload(FALSE, NoCategories, NoAudits)

Rejected == [kind |-> "rejected", ok |-> FALSE, status |-> "0", statusText |-> "",
             json |-> FALSE, data |-> NoData]

HttpResponse(ok, status, statusText, json, data) ==
    [kind |-> "response", ok |-> ok, status |-> status, statusText |-> statusText,
     json |-> json, data |-> data]

\* The body of the try block of runLighthouseAudit from the await of fetch
\* on, for what the fetch settled with.
LighthouseTry(r, s) ==
    IF r.kind = "rejected" THEN Thrown(Error("TypeError", <<"Failed to fetch">>))
    ELSE IF ~r.ok
         THEN Thrown(Error("Error", <<"Lighthouse API error: ", r.status, " ", r.statusText>>))
    ELSE IF ~r.json THEN Thrown(Error("SyntaxError", <<"Unexpected token in JSON">>))
    ELSE IF ~r.data.categories.present
         THEN Thrown(Error("TypeError", <<"Cannot read properties of undefined (reading 'accessibility')">>))
    ELSE IF ~r.data.audits.present
         THEN Thrown(Error("TypeError", <<"Cannot convert undefined or null to object">>))
    ELSE Returned(processLighthouseResults(r.data, s))

\* The catch block's rethrow with the cause's message passed on as it is.
LighthouseErrorUnwrapped(error) == error

\* new Error(`Failed to run Lighthouse audit: ${error.message}`)
LighthouseError(error) ==
    Error("Error", <<"Failed to run Lighthouse audit: ">> \o error.message)

\* How runLighthouseAudit(url, settings) ends once its fetch has settled.
runLighthouseAudit(r, s) ==
    LET body == LighthouseTry(r, s)
    IN IF body.status = "threw" THEN Thrown(LighthouseError(body.error)) ELSE body

\* analyzeWebsite without its inner catch: a failure of runLighthouseAudit
\* leaves no result.
analyzeWebsiteNoFallback(lh, url, s) == lh.value

\* analyzeWebsite(url, settings), given how runLighthouseAudit ended.
analyzeWebsite(lh, url, s) ==
    IF lh.status = "threw" THEN runFallbackAudit(url, s) ELSE lh.value

\* The inputs.
Urls == {Url_query}

\* Every combination of the toggles the website audit reads without a key,
\* and the default toggles with a key.
WebSettings ==
    {MakeSettings(a, TRUE, se, pe, rem, NoKey) :
        a \in BOOLEAN, se \in BOOLEAN, pe \in BOOLEAN, rem \in BOOLEAN}
    \cup {MakeSettings(TRUE, TRUE, TRUE, TRUE, TRUE, SomeKey)}

CategoryPayloads ==
    {NoCategories}
    \cup {Categories(a, se, pe) : a \in {Undefined, 0, 875, 1000},
                                  se \in {Undefined, 800}, pe \in {Undefined, 604}}

\* The title the scoring service gives the audit of a rule.
TitleOf(id) ==
    CASE id = Id_label -> "Form elements have associated labels"
      [] id = Id_meta_description -> "Document has a meta description"
      [] id = Id_seo_meta -> "Document has meta tags"
      [] id = Id_seo_meta_description -> "Meta description is descriptive"
      [] id = Id_speed_index -> "Speed Index"
      [] id = Id_performance_budget -> "Performance budget"
      [] id = Id_load_fast -> "Page load is fast enough"
      [] id = Id_seo -> "Search engine optimisation"
      [] id = Id_preload_fonts -> "Fonts are preloaded"

AuditEntry(id, score) ==
    [id |-> id, score |-> score, title |-> TitleOf(id), description |-> "description"]

AuditIds ==
    {Id_label, Id_meta_description, Id_seo_meta, Id_seo_meta_description, Id_speed_index,
     Id_performance_budget, Id_load_fast, Id_seo, Id_preload_fonts}

\* Scores in thousandths, on both sides of 0.5 and of 0.9.
AuditScores == {NullScore, 1000, 0, 300, 499, 500, 899, 900, 950}

\* Every rule id with score 0.3, one rule id with every score, and a
\* passed and a not applicable audit of another rule.
AuditEntries ==
    {AuditEntry(id, 300) : id \in AuditIds}
    \cup {AuditEntry(Id_seo_meta_description, sc) : sc \in AuditScores}
    \cup {AuditEntry(Id_label, 1000), AuditEntry(Id_label, NullScore)}

\* The audits mappings: entries in insertion order, no rule id twice.
AuditLists ==
    {es \in UNION {[1..k -> AuditEntries] : k \in 0..MaxAudits} :
        \A i, j \in DOMAIN es : i # j => es[i].id # es[j].id}

AuditPayloads == {NoAudits} \cup {Audits(es) : es \in AuditLists}

Responses ==
    {Rejected,
     HttpResponse(FALSE, "403", "Forbidden", TRUE, Payload(TRUE, NoCategories, NoAudits)),
     HttpResponse(FALSE, "500", "Internal Server Error", FALSE, NoData),
     HttpResponse(TRUE, "200", "OK", FALSE, NoData),
     HttpResponse(TRUE, "200", "OK", TRUE, Payload(TRUE, NoCategories, NoAudits)),
     HttpResponse(TRUE, "200", "OK", TRUE,
                  Payload(TRUE, Categories(875, 800, 604), Audits(<<>>)))}
    \cup {HttpResponse(TRUE, "200", "OK", TRUE, Payload(FALSE, c, a)) :
             c \in CategoryPayloads, a \in {NoAudits, Audits(<<>>)}}
    \cup {HttpResponse(TRUE, "200", "OK", TRUE, Payload(FALSE, Categories(875, 800, 604), a)) :
             a \in AuditPayloads}

InitWeb ==
    /\ WalkIdle
    /\ ExportIdle
    /\ SettingsIdle
    /\ webInput \in [url : Urls, settings : WebSettings]
    /\ webPc = "start"
    /\ requests = <<>>
    /\ response = NoResult
    /\ lhOutcome = NoResult
    /\ webResult = NoResult
    /\ ScoreIdle
    /\ DocIdle
    /\ WcagIdle
    /\ PluginIdle

\* analyzeWebsite calls runLighthouseAudit, which builds the request and
\* sends it, up to the await of fetch.
AnalyzeWebsiteFetch ==
    /\ webPc = "start"
    /\ requests' = Append(requests, LighthouseRequest(webInput.url, webInput.settings))
    /\ webPc' = "awaitFetch"
    /\ UNCHANGED <<webInput, response, lhOutcome, webResult,
                   scoreVars, docVars, wcagVars, pluginVars, settingsVars, exportVars, walkVars>>

\* The fetch settles; runLighthouseAudit and analyzeWebsite run to their end.
AnalyzeWebsiteSettle ==
    /\ webPc = "awaitFetch"
    /\ \E r \in Responses :
          /\ response' = r
          /\ lhOutcome' = runLighthouseAudit(r, webInput.settings)
          /\ webResult' = analyzeWebsite(runLighthouseAudit(r, webInput.settings),
                                         webInput.url, webInput.settings)
    /\ webPc' = "done"
    /\ UNCHANGED <<webInput, requests, scoreVars, docVars, wcagVars, pluginVars, settingsVars, exportVars, walkVars>>

NextWeb == AnalyzeWebsiteFetch \/ AnalyzeWebsiteSettle

SpecWeb == InitWeb /\ [][NextWeb]_vars


(***************************************************************************)
(* The plugin's message handler (code.ts): audit-website, save-settings,   *)
(* load-settings                                                           *)
(***************************************************************************)

\* The largest number of UI messages the handler is given.
MaxMessages == 3

\* An optional field of a message.
Absent == [present |-> FALSE, value |-> <<>>]

Some(v) == [present |-> TRUE, value |-> v]

defaultSettings == MakeSettings(TRUE, TRUE, TRUE, TRUE, TRUE, NoKey)

\* Object.assign({}, a, b): the fields of b over those of a.
ObjectAssign(a, b) ==
    [f \in DOMAIN a \cup DOMAIN b |-> IF f \in DOMAIN b THEN b[f] ELSE a[f]]

\* What clientStorage holds under the settings key: nothing, or a string.
\* JSON.stringify makes a well-formed string of a value; JSON.parse gives
\* the value of a well-formed string back and throws on any other.
NoStored == [present |-> FALSE, wellFormed |-> FALSE, value |-> NoSettings]

JSONstringify(v) == [present |-> TRUE, wellFormed |-> TRUE, value |-> v]

Corrupt == [present |-> TRUE, wellFormed |-> FALSE, value |-> NoSettings]

\* `Score: ${n}/100`
ScoreText(n) == [template |-> "Score: ${n}/100", n |-> n]

\* (score || 0) * 100, rounded; a null score counts as 0.
ScoreOrZero(score) == IF score = NullScore THEN 0 ELSE Percent(score)

NoLighthouseResult == [present |-> FALSE, categories |-> NoCategories]

LighthouseResult(categories) == [present |-> TRUE, categories |-> categories]

\* The payload performDetailedWebsiteAudit reads: a top-level error with
\* a message, or lighthouseResult.categories.
PluginPayload(error, message, lighthouseResult) ==
    [error |-> error, message |-> message, lighthouseResult |-> lighthouseResult]

\* The try block of performDetailedWebsiteAudit from the await of fetch on.
DetailedTry(r) ==
    IF r.kind = "rejected" THEN Thrown(Error("TypeError", <<"Failed to fetch">>))
    ELSE IF ~r.json THEN Thrown(Error("SyntaxError", <<"Unexpected token in JSON">>))
    ELSE IF r.data.error
         THEN Thrown(Error("Error", <<IF r.data.message # "" THEN r.data.message
                                      ELSE "API Error">>))
    ELSE IF ~r.data.lighthouseResult.present
         THEN Thrown(Error("TypeError", <<"Cannot read properties of undefined (reading 'categories')">>))
    ELSE IF \E c \in {"accessibility", "seo", "performance"} :
                r.data.lighthouseResult.categories[c] = Undefined
         THEN Thrown(Error("TypeError", <<"Cannot read properties of undefined (reading 'score')">>))
    ELSE LET categories == r.data.lighthouseResult.categories
         IN Returned([type |-> "website",
                      seo |-> ScoreText(ScoreOrZero(categories.seo)),
                      accessibility |-> ScoreText(ScoreOrZero(categories.accessibility)),
                      performance |-> ScoreText(ScoreOrZero(categories.performance)),
                      note |-> "Detailed analysis using Google PageSpeed Insights"])

performDetailedWebsiteAudit(r) ==
    LET body == DetailedTry(r)
    IN IF body.status = "threw"
       THEN Thrown(Error("Error", <<"Error fetching audit from Google: ">> \o body.error.message))
       ELSE body

performBasicWebsiteAudit ==
    [type |-> "website",
     accessibility |-> 85,
     seo |-> 90,
     performance |-> 75,
     details |-> "Basic audit complete. For more details, add a Google PageSpeed API key in settings."]

\* The catch block of auditWebsite.
AuditWebsiteCatch(outcome) ==
    IF outcome.status = "threw"
    THEN Thrown(Error("Error", <<"Failed to audit website: ">> \o outcome.error.message))
    ELSE outcome

\* A request that carries a fixed key instead of the one it is handed.
DetailedRequestFixedKey(url, apiKey) ==
    [url |-> encodeURIComponent(url),
     key |-> SomeKey,
     category |-> <<"ACCESSIBILITY", "SEO", "PERFORMANCE">>]

\* The request performDetailedWebsiteAudit sends.
DetailedRequest(url, apiKey) ==
    [url |-> encodeURIComponent(url),
     key |-> apiKey,
     category |-> <<"ACCESSIBILITY", "SEO", "PERFORMANCE">>]

Pending == [status |-> "pending", value |-> NoResult, error |-> NoError]

\* A handler whose catch block shows nothing.
AfterAuditWebsiteSilent(outcome) ==
    IF outcome.status = "returned"
    THEN /\ posted' = Append(posted, [type |-> "audit-result", result |-> outcome.value])
         /\ notified' = Append(notified, <<"Website audit complete!">>)
    ELSE /\ posted' = posted
         /\ notified' = notified

\* What the handler does with the outcome of auditWebsite.
AfterAuditWebsite(outcome) ==
    IF outcome.status = "returned"
    THEN /\ posted' = Append(posted, [type |-> "audit-result", result |-> outcome.value])
         /\ notified' = Append(notified, <<"Website audit complete!">>)
    ELSE /\ posted' = posted
         /\ notified' = Append(notified, <<"Failed to audit website: ">> \o outcome.error.message)

PluginResponses ==
    {Rejected,
     HttpResponse(FALSE, "403", "Forbidden", TRUE,
                  PluginPayload(TRUE, "API key not valid", NoLighthouseResult)),
     HttpResponse(TRUE, "200", "OK", FALSE, NoData),
     HttpResponse(TRUE, "200", "OK", TRUE, PluginPayload(TRUE, "", NoLighthouseResult)),
     HttpResponse(TRUE, "200", "OK", TRUE, PluginPayload(FALSE, "", NoLighthouseResult))}
    \cup {HttpResponse(TRUE, "200", "OK", TRUE, PluginPayload(FALSE, "", LighthouseResult(c))) :
             c \in {Categories(875, 800, 604), Categories(NullScore, 0, 1000),
                    Categories(Undefined, 800, 604)}}

\* A UI message as the handler meets it: its type, its url and apiKey
\* fields, and the types of the nodes figma.currentPage.selection holds at
\* that time.
Message(type, url, apiKey, selection) ==
    [type |-> type, url |-> url, apiKey |-> apiKey, selection |-> selection]

OtherKey == <<"k", "2">>

\* auditWebsite(url, currentSettings) is handed the settings object itself;
\* it and performDetailedWebsiteAudit read lighthouseApiKey and assign
\* nothing: the object as the call leaves it.
auditWebsiteLeavesCleared(s) == [s EXCEPT !.lighthouseApiKey = NoKey]

auditWebsiteLeaves(s) == s

\* The element trees a selected node can be the root of: a frame with a
\* text, a group with the same text, a lone text.
SelectedFrame ==
    <<RootNode(N_Page),
      Node(1, "TEXT", N_Text, Fills(<<SolidPaint(Grey60, TRUE)>>), 16, 400, TextCacheApi,
           0, Px(200), Px(20), 0)>>

SelectedGroup == <<[RootNode(N_Group) EXCEPT !.type = "GROUP"], SelectedFrame[2]>>

SelectedText == <<[SelectedFrame[2] EXCEPT !.parent = 0]>>

Selections ==
    {<<>>, <<SelectedFrame>>, <<SelectedGroup>>, <<SelectedText>>,
     <<SelectedGroup, SelectedFrame>>, <<SelectedFrame, SelectedText>>}

\* The audit-frame branch without its test of the type.
SelectionAcceptedAnyType(selection) == Len(selection) # 0

\* The two tests of the audit-frame branch that let the audit run.
SelectionAccepted(selection) ==
    /\ Len(selection) # 0
    /\ selection[1][1].type = "FRAME"

InitPlugin ==
    /\ WalkIdle
    /\ ExportIdle
    /\ SettingsIdle
    /\ currentSettings = ObjectAssign(defaultSettings, defaultSettings)
    /\ storage \in {NoStored, Corrupt,
                    JSONstringify([lighthouseApiKey |-> SomeKey, seoChecks |-> FALSE])}
    /\ pluginPc = "idle"
    /\ pluginRequests = <<>>
    /\ pluginAudit = NoResult
    /\ posted = <<>>
    /\ notified = <<>>
    /\ handled = 0
    /\ lastMessage = NoResult
    /\ auditCalls = <<>>
    /\ pendingLoad = NoResult
    /\ ScoreIdle
    /\ DocIdle
    /\ WcagIdle
    /\ WebIdle

\* msg.type === 'audit-website', up to the first await that can wait for
\* the scoring service; without a key the handler runs to its end.
OnAuditWebsite ==
    /\ handled < MaxMessages
    /\ pluginPc = "idle"
    /\ handled' = handled + 1
    /\ \E url \in {Absent, Some(<<>>), Some(Url_plain), Some(Url_query)} :
          /\ lastMessage' = Message("audit-website", url, Absent, <<>>)
          /\ currentSettings' = IF ~url.present \/ url.value = <<>> THEN currentSettings
                                 ELSE auditWebsiteLeaves(currentSettings)
          /\ auditCalls' = IF ~url.present \/ url.value = <<>> THEN auditCalls
                            ELSE Append(auditCalls, "auditWebsite")
          /\ IF ~url.present \/ url.value = <<>>
             THEN /\ notified' = notified
                         \o << <<"Auditing website: ",
                                 IF url.present THEN url.value ELSE <<"undefined">>, "...">>,
                               <<"Please enter a URL to audit.">> >>
                  /\ UNCHANGED <<pluginPc, pluginRequests, pluginAudit, posted>>
             ELSE IF currentSettings.lighthouseApiKey # NoKey
             THEN /\ pluginRequests' = Append(pluginRequests,
                                              DetailedRequest(url.value, currentSettings.lighthouseApiKey))
                  /\ pluginAudit' = [url |-> url.value, key |-> currentSettings.lighthouseApiKey,
                                     requested |-> TRUE, outcome |-> Pending]
                  /\ pluginPc' = "awaitFetch"
                  /\ notified' = Append(notified, <<"Auditing website: ", url.value, "...">>)
                  /\ UNCHANGED posted
             ELSE /\ pluginAudit' = [url |-> url.value, key |-> currentSettings.lighthouseApiKey,
                                     requested |-> FALSE,
                                     outcome |-> AuditWebsiteCatch(Returned(performBasicWebsiteAudit))]
                  /\ posted' = Append(posted, [type |-> "audit-result",
                                               result |-> performBasicWebsiteAudit])
                  /\ notified' = notified
                         \o << <<"Auditing website: ", url.value, "...">>,
                               <<"Website audit complete!">> >>
                  /\ UNCHANGED <<pluginPc, pluginRequests>>
    /\ UNCHANGED <<storage, pendingLoad, scoreVars, docVars, wcagVars, webVars, settingsVars, exportVars, walkVars>>

\* msg.type === 'audit-frame'
OnAuditFrame ==
    /\ handled < MaxMessages
    /\ pluginPc = "idle"
    /\ handled' = handled + 1
    /\ \E selection \in Selections :
          /\ lastMessage' = Message("audit-frame", Absent, Absent,
                                    [i \in DOMAIN selection |-> selection[i][1].type])
          /\ IF Len(selection) = 0
             THEN /\ notified' = Append(notified, <<"Please select a frame to audit.">>)
                  /\ UNCHANGED <<posted, auditCalls>>
             ELSE IF ~SelectionAccepted(selection)
             THEN /\ notified' = Append(notified, <<"Please select a valid frame.">>)
                  /\ UNCHANGED <<posted, auditCalls>>
             ELSE /\ auditCalls' = Append(auditCalls, "auditFrame")
                  /\ posted' = Append(posted, [type |-> "audit-result",
                                               result |-> auditFrame(selection[1], 1)])
                  /\ UNCHANGED notified
    /\ UNCHANGED <<currentSettings, storage, pluginPc, pluginRequests, pluginAudit, pendingLoad,
                   scoreVars, docVars, wcagVars, webVars, settingsVars, exportVars, walkVars>>

\* The fetch of performDetailedWebsiteAudit settles; the handler runs to
\* its end.
OnAuditWebsiteSettle ==
    /\ pluginPc = "awaitFetch"
    /\ \E r \in PluginResponses :
          LET outcome == AuditWebsiteCatch(performDetailedWebsiteAudit(r))
          IN /\ pluginAudit' = [pluginAudit EXCEPT !.outcome = outcome]
             /\ AfterAuditWebsite(outcome)
    /\ pluginPc' = "idle"
    /\ UNCHANGED <<currentSettings, storage, pluginRequests, handled, lastMessage, auditCalls,
                   pendingLoad,
                   scoreVars, docVars, wcagVars, webVars, settingsVars, exportVars, walkVars>>

\* msg.type === 'save-settings', with setAsync resolving (stored) or
\* rejecting.
OnSaveSettings ==
    /\ handled < MaxMessages
    /\ handled' = handled + 1
    /\ \E apiKey \in {Absent, Some(NoKey), Some(SomeKey), Some(OtherKey)}, stored \in BOOLEAN :
          LET saved == [currentSettings EXCEPT
                           !.lighthouseApiKey = IF apiKey.present THEN apiKey.value ELSE NoKey]
          IN /\ currentSettings' = saved
             /\ lastMessage' = Message("save-settings", Absent, apiKey, <<>>)
             /\ IF stored
                THEN /\ storage' = JSONstringify(saved)
                     /\ posted' = Append(posted, [type |-> "settings-message",
                                                  message |-> "Settings saved successfully!"])
                     /\ notified' = Append(notified, <<"Settings saved!">>)
                ELSE /\ storage' = storage
                     /\ posted' = Append(posted, [type |-> "settings-message",
                                                  message |-> "Failed to save settings."])
                     /\ notified' = notified
    /\ UNCHANGED <<pluginPc, pluginRequests, pluginAudit, auditCalls, pendingLoad,
                   scoreVars, docVars, wcagVars, webVars, settingsVars, exportVars, walkVars>>

\* What a getAsync that has been issued will resolve with: the storage
\* serves its requests in the order they were issued.
PendingRead(stored) == [read |-> stored]

\* msg.type === 'load-settings', up to the return of the handler: getAsync
\* has been issued, its callbacks have not run.
OnLoadSettings ==
    /\ handled < MaxMessages
    /\ pendingLoad = NoResult
    /\ handled' = handled + 1
    /\ pendingLoad' = PendingRead(storage)
    /\ lastMessage' = Message("load-settings", Absent, Absent, <<>>)
    /\ UNCHANGED <<currentSettings, storage, pluginPc, pluginRequests, pluginAudit, posted,
                   notified, auditCalls,
                   scoreVars, docVars, wcagVars, webVars, settingsVars, exportVars, walkVars>>

\* The getAsync of load-settings settles: it resolves (loaded) and the
\* then callback runs, or it rejects and the catch callback logs.
OnLoadSettingsSettle ==
    /\ pendingLoad # NoResult
    /\ pendingLoad' = NoResult
    /\ \E loaded \in BOOLEAN :
          IF loaded /\ pendingLoad.read.present /\ pendingLoad.read.wellFormed
          THEN /\ currentSettings' = ObjectAssign(defaultSettings, pendingLoad.read.value)
               /\ posted' = Append(posted, [type |-> "settings-loaded",
                                            settings |-> ObjectAssign(defaultSettings,
                                                                      pendingLoad.read.value)])
          ELSE UNCHANGED <<currentSettings, posted>>
    /\ UNCHANGED <<storage, pluginPc, pluginRequests, pluginAudit, notified, auditCalls,
                   handled, lastMessage,
                   scoreVars, docVars, wcagVars, webVars, settingsVars, exportVars, walkVars>>

NextPlugin ==
    \/ OnAuditFrame
    \/ OnAuditWebsite
    \/ OnAuditWebsiteSettle
    \/ OnSaveSettings
    \/ OnLoadSettings
    \/ OnLoadSettingsSettle

SpecPlugin == InitPlugin /\ [][NextPlugin]_vars


(***************************************************************************)
(* The settings module (part_001)                                          *)
(***************************************************************************)

\* defaultSettings of the settings module; it differs from the one of
\* code.ts in includeScreenshots.
defaultSettings_module == [defaultSettings EXCEPT !.includeScreenshots = TRUE]

\* A Settings value with no field at its default.
customSettings ==
    [accessibilityChecks |-> FALSE, heuristicChecks |-> FALSE, seoChecks |-> FALSE,
     performanceChecks |-> FALSE, exportFormat |-> "pdf",
     includeScreenshots |-> FALSE, includeRemediation |-> FALSE,
     lighthouseApiKey |-> SomeKey, useAI |-> TRUE]

SettingsFields == DOMAIN defaultSettings_module

\* What an earlier version of the plugin may have stored: a snapshot with
\* only some of the fields.
Snapshots ==
    {[f \in F |-> full[f]] : F \in SUBSET SettingsFields,
                             full \in {defaultSettings_module, customSettings}}

SettingsCall(op, stored, outcome) == [op |-> op, stored |-> stored, outcome |-> outcome]

\* saveSettings(settings), with setAsync resolving (stored) or rejecting.
saveSettings(value, stored) ==
    IF stored THEN Returned(NoSettings)
    ELSE Thrown(Error("Error", <<"Failed to save settings: ", "QuotaExceeded">>))

\* loadSettings(), with getAsync resolving to what is stored or rejecting:
\* null (NoSettings) when nothing is stored or on any failure, else the
\* parsed snapshot as it is.
loadSettings(stored, resolved) ==
    IF ~resolved THEN Returned(NoSettings)
    ELSE IF ~stored.present THEN Returned(NoSettings)
    ELSE IF ~stored.wellFormed THEN Returned(NoSettings)
    ELSE Returned(stored.value)

\* resetSettings()
resetSettings(stored) ==
    LET saved == saveSettings(defaultSettings_module, stored)
    IN IF saved.status = "threw"
       THEN Thrown(Error("Error", <<"Failed to reset settings: ">> \o saved.error.message))
       ELSE Returned(defaultSettings_module)

InitSettings ==
    /\ WalkIdle
    /\ ExportIdle
    /\ moduleStorage \in {NoStored, Corrupt} \cup {JSONstringify(v) : v \in Snapshots}
    /\ settingsCall = NoResult
    /\ ScoreIdle
    /\ DocIdle
    /\ WcagIdle
    /\ WebIdle
    /\ PluginIdle

SaveSettings ==
    /\ \E value \in {defaultSettings_module, customSettings}, stored \in BOOLEAN :
          /\ settingsCall' = SettingsCall("saveSettings", moduleStorage, saveSettings(value, stored))
          /\ moduleStorage' = IF stored THEN JSONstringify(value) ELSE moduleStorage
    /\ UNCHANGED <<scoreVars, docVars, wcagVars, webVars, pluginVars, exportVars, walkVars>>

LoadSettings ==
    /\ \E resolved \in BOOLEAN :
          settingsCall' = SettingsCall("loadSettings", moduleStorage,
                                       loadSettings(moduleStorage, resolved))
    /\ UNCHANGED <<moduleStorage, scoreVars, docVars, wcagVars, webVars, pluginVars, exportVars, walkVars>>

ResetSettings ==
    /\ \E stored \in BOOLEAN :
          /\ settingsCall' = SettingsCall("resetSettings", moduleStorage, resetSettings(stored))
          /\ moduleStorage' = IF stored THEN JSONstringify(defaultSettings_module)
                              ELSE moduleStorage
    /\ UNCHANGED <<scoreVars, docVars, wcagVars, webVars, pluginVars, exportVars, walkVars>>

NextSettings == SaveSettings \/ LoadSettings \/ ResetSettings

SpecSettings == InitSettings /\ [][NextSettings]_vars

\* C17 (as claimed): every load of persisted settings, by the load-settings
\* handler of code.ts and by loadSettings of the settings module, yields a
\* Settings record with every field defined: a field missing from the
\* stored snapshot has its default value, a field present in it overrides
\* the default.
C17_LoadLayersOverDefaults ==
    /\ \A i \in DOMAIN posted :
          posted[i].type = "settings-loaded" =>
              /\ DOMAIN posted[i].settings = DOMAIN defaultSettings
              /\ \A f \in DOMAIN defaultSettings :
                    posted[i].settings[f] # defaultSettings[f] => f \in DOMAIN storage.value
    /\ (/\ settingsCall # NoResult
        /\ settingsCall.op = "loadSettings"
        /\ settingsCall.stored.present
        /\ settingsCall.stored.wellFormed
        /\ settingsCall.outcome.value # NoSettings) =>
           settingsCall.outcome.value =
               ObjectAssign(defaultSettings_module, settingsCall.stored.value)

(***************************************************************************)
(* The export of reports (types.ts)                                        *)
(***************************************************************************)

\* The largest number of issues of an exported result.
MaxExportIssues == 2

Digits == {"0", "1", "2", "3", "4", "5", "6", "7", "8", "9"}

ToUpperChar(c) ==
    IF \E i \in DOMAIN LowerAlphabet : LowerAlphabet[i] = c
    THEN UpperAlphabet[CHOOSE i \in DOMAIN LowerAlphabet : LowerAlphabet[i] = c]
    ELSE c

\* str.charAt(0).toUpperCase() + str.slice(1)
capitalizeFirstLetter(str) ==
    IF str = <<>> THEN <<>> ELSE <<ToUpperChar(Head(str))>> \o Tail(str)

\* .replace(/-+/g, '-'): every run of dashes becomes one dash.
RECURSIVE CollapseDashes(_)
CollapseDashes(str) ==
    IF Len(str) < 2 THEN str
    ELSE IF str[1] = "-" /\ str[2] = "-" THEN CollapseDashes(Tail(str))
    ELSE <<Head(str)>> \o CollapseDashes(Tail(str))

\* sanitizeFilename(name)
sanitizeFilename(name) ==
    LET dashed == [i \in DOMAIN name |->
                      IF name[i] \in Letters \cup Digits THEN name[i] ELSE "-"]
        collapsed == CollapseDashes(dashed)
    IN [i \in DOMAIN collapsed |-> ToLowerChar(collapsed[i])]

getSeverityIcon(severity) ==
    CASE severity = "error" -> "warning sign"
      [] severity = "warning" -> "warning sign"
      [] severity = "info" -> "information sign"
      [] OTHER -> ""

getScoreClass(score) ==
    IF score >= 90 THEN "good" ELSE IF score >= 70 THEN "warning" ELSE "error"

\* The characters of an issue type.
TypeChars(type) ==
    CASE type = "accessibility" -> <<"a", "c", "c", "e", "s", "s", "i", "b", "i", "l", "i", "t", "y">>
      [] type = "heuristic" -> <<"h", "e", "u", "r", "i", "s", "t", "i", "c">>
      [] type = "seo" -> <<"s", "e", "o">>
      [] type = "performance" -> <<"p", "e", "r", "f", "o", "r", "m", "a", "n", "c", "e">>

\* A number as a template literal prints it; undefined prints "undefined".
Shown(n) == IF n = Undefined THEN "undefined" ELSE ToString(n)

\* A piece of the generated text: a template literal, the name or type it
\* holds, and the texts of its other holes.
Piece(template, chars, args) == [template |-> template, chars |-> chars, args |-> args]

\* The types of the issues in the order Object.entries(issuesByType) gives.
TypesOfIssues(list) == Unique([i \in DOMAIN list |-> list[i].type], <<>>)

IssuesOfType(list, type) == SelectSeq(list, LAMBDA i : i.type = type)

\* The rows of the summary table that are there for every result or for a
\* defined score only.
SummaryScores(result) ==
    <<[label |-> "Accessibility", score |-> result.accessibility, always |-> TRUE],
      [label |-> "Heuristics", score |-> result.heuristics, always |-> FALSE],
      [label |-> "SEO", score |-> result.seo, always |-> FALSE],
      [label |-> "Performance", score |-> result.performance, always |-> FALSE]>>

SummaryRows(result) ==
    SelectSeq(SummaryScores(result), LAMBDA row : row.always \/ row.score # Undefined)

RECURSIVE Concat(_)
Concat(lists) == IF lists = <<>> THEN <<>> ELSE Head(lists) \o Concat(Tail(lists))

MarkdownIssue(issue, s) ==
    << Piece("#### ${severityIcon} ${issue.title}\n\n", <<>>,
             <<getSeverityIcon(issue.severity), issue.title>>),
       Piece("${issue.description}\n\n", <<>>, <<issue.description>>) >>
    \o (IF s.includeRemediation /\ issue.remediation \notin {NoRemediation, ""}
        THEN << Piece("**Remediation:** ${issue.remediation}\n\n", <<>>, <<issue.remediation>>) >>
        ELSE <<>>)
    \o << Piece("---\n\n", <<>>, <<>>) >>

MarkdownGroup(list, type, s) ==
    << Piece("### ${capitalizeFirstLetter(type)} Issues (${issues.length})\n\n",
             capitalizeFirstLetter(TypeChars(type)),
             <<ToString(Len(IssuesOfType(list, type)))>>) >>
    \o Concat([i \in DOMAIN IssuesOfType(list, type) |->
                  MarkdownIssue(IssuesOfType(list, type)[i], s)])

\* The markdown text exportMarkdown generates.
Markdown(result, name, s, clock) ==
    << Piece("# UX Audit Report: ${name}\n\n", name, <<>>),
       Piece("*Generated on ${date} at ${time}*\n\n", <<>>, <<clock.date, clock.time>>),
       Piece("## Summary\n\n| Category | Score |\n| -------- | ----- |\n", <<>>, <<>>) >>
    \o [i \in DOMAIN SummaryRows(result) |->
           Piece("| ${label} | ${score}/100 |\n", <<>>,
                 <<SummaryRows(result)[i].label, Shown(SummaryRows(result)[i].score)>>)]
    \o << Piece("| **Overall** | **${result.overall}/100** |\n\n", <<>>, <<Shown(result.overall)>>),
          Piece("## Issues Found (${result.issues.length})\n\n", <<>>,
                <<ToString(Len(result.issues))>>) >>
    \o Concat([i \in DOMAIN TypesOfIssues(result.issues) |->
                  MarkdownGroup(result.issues, TypesOfIssues(result.issues)[i], s)])

HtmlIssue(issue, s) ==
    << Piece("<div class=issue> title, description, tags", <<>>,
             <<getSeverityIcon(issue.severity), issue.title, issue.description,
               issue.type, issue.severity>>) >>
    \o (IF s.includeRemediation /\ issue.remediation \notin {NoRemediation, ""}
        THEN << Piece("<div class=issue-remediation>", <<>>, <<issue.remediation>>) >>
        ELSE <<>>)
    \o << Piece("</div>", <<>>, <<>>) >>

HtmlGroup(list, type, s) ==
    << Piece("<h3>${capitalizeFirstLetter(type)} Issues (${issues.length})</h3>",
             capitalizeFirstLetter(TypeChars(type)),
             <<ToString(Len(IssuesOfType(list, type)))>>) >>
    \o Concat([i \in DOMAIN IssuesOfType(list, type) |->
                  HtmlIssue(IssuesOfType(list, type)[i], s)])

\* The HTML text exportHtml generates.
Html(result, name, s, clock) ==
    << Piece("<!DOCTYPE html> <head> <title>UX Audit Report: ${name}</title> <style>", name, <<>>),
       Piece("<h1>UX Audit Report: ${name}</h1>", name, <<>>),
       Piece("<div class=meta>Generated on ${date} at ${time}</div>", <<>>,
             <<clock.date, clock.time>>),
       Piece("<h2>Summary</h2> <table>", <<>>, <<>>) >>
    \o [i \in DOMAIN SummaryRows(result) |->
           Piece("<tr> <td>${label}</td> <td class=score ${class}>${score}/100</td> </tr>", <<>>,
                 <<SummaryRows(result)[i].label, getScoreClass(SummaryRows(result)[i].score),
                   Shown(SummaryRows(result)[i].score)>>)]
    \o << Piece("<tr> <td>Overall</td> <td class=score ${class}>${overall}/100</td> </tr> </table>",
                <<>>, <<getScoreClass(result.overall), Shown(result.overall)>>),
          Piece("<h2>Issues Found (${result.issues.length})</h2>", <<>>,
                <<ToString(Len(result.issues))>>) >>
    \o Concat([i \in DOMAIN TypesOfIssues(result.issues) |->
                  HtmlGroup(result.issues, TypesOfIssues(result.issues)[i], s)])
    \o << Piece("</body> </html>", <<>>, <<>>) >>

\* The file the link of a download names: its name, the type of its Blob
\* and the text in it.
Download(stem, extension, type, content) ==
    [filename |-> <<"u", "x", "a", "u", "d", "i", "t", "-">> \o stem \o extension,
     type |-> type, content |-> content]

\* What an export function has done when it ends.
Exported(shown, files, outcome) == [alerts |-> shown, downloads |-> files, outcome |-> outcome]

\* The Blob, object URL and link steps of an export function: the browser
\* (dom) lets them all pass, or fails before or after the click.
Deliver(file, dom, prefix) ==
    CASE dom = "ok" -> Exported(<<>>, <<file>>, Returned(NoResult))
      [] dom = "failsBeforeClick" ->
            Exported(<<>>, <<>>, Thrown(Error("Error", <<prefix, "createObjectURL failed">>)))
      [] dom = "failsAfterClick" ->
            Exported(<<>>, <<file>>, Thrown(Error("Error", <<prefix, "removeChild failed">>)))

exportMarkdown(result, name, s, clock, dom) ==
    Deliver(Download(sanitizeFilename(name), <<".", "m", "d">>, "text/markdown",
                     Markdown(result, name, s, clock)),
            dom, "Failed to export markdown: ")

exportHtml(result, name, s, clock, dom) ==
    Deliver(Download(sanitizeFilename(name), <<".", "h", "t", "m", "l">>, "text/html",
                     Html(result, name, s, clock)),
            dom, "Failed to export HTML: ")

PdfNotice == "PDF export will be available in a future update. Exporting as Markdown instead."

\* A PDF export that announces nothing and writes an empty file.
exportPdfEmpty(result, name, s, clock, dom) ==
    Deliver(Download(sanitizeFilename(name), <<".", "p", "d", "f">>, "application/pdf", <<>>),
            dom, "Failed to export PDF: ")

exportPdf(result, name, s, clock, dom) ==
    LET md == exportMarkdown(result, name, s, clock, dom)
    IN Exported(<<PdfNotice>> \o md.alerts, md.downloads,
                IF md.outcome.status = "threw"
                THEN Thrown(Error("Error", <<"Failed to export PDF: ">> \o md.outcome.error.message))
                ELSE md.outcome)

exportReport(result, format, name, s, clock, dom) ==
    LET done == CASE format = "markdown" -> exportMarkdown(result, name, s, clock, dom)
                  [] format = "pdf" -> exportPdf(result, name, s, clock, dom)
                  [] format = "html" -> exportHtml(result, name, s, clock, dom)
                  [] OTHER -> exportMarkdown(result, name, s, clock, dom)
    IN Exported(done.alerts, done.downloads,
                IF done.outcome.status = "threw"
                THEN Thrown(Error("Error", <<"Failed to export report: ">> \o done.outcome.error.message))
                ELSE done.outcome)

ExportIssue(type, severity, title, remediation) ==
    [type |-> type, severity |-> severity, title |-> title,
     description |-> "description", remediation |-> remediation]

ExportIssuePool ==
    {ExportIssue("accessibility", "error", "Low contrast text", "Increase the contrast."),
     ExportIssue("heuristic", "info", "Inconsistent spacing", NoRemediation),
     ExportIssue("accessibility", "warning", "Small text", "")}

ExportIssueLists ==
    UNION {[1..k -> ExportIssuePool] : k \in 0..MaxExportIssues}

ExportResult(accessibility, heuristics, seo, performance, overall, list) ==
    [accessibility |-> accessibility, heuristics |-> heuristics, seo |-> seo,
     performance |-> performance, overall |-> overall, issues |-> list]

ExportResults ==
    {ExportResult(sc[1], sc[2], sc[3], sc[4], sc[5], list) :
        sc \in {<<85, 95, Undefined, Undefined, 90>>, <<60, Undefined, 90, 75, 75>>},
        list \in ExportIssueLists}

N_MyApp == <<"M", "y", " ", "-", " ", "A", "p", "p", "_", "2">>

Clocks == {[date |-> "11/1/2026", time |-> "3:30:00 PM"],
           [date |-> "11/2/2026", time |-> "9:00:00 AM"]}

InitExport ==
    /\ WalkIdle
    /\ exportInput \in [result : ExportResults,
                        format : {"markdown", "pdf", "html", "docx"},
                        name : {N_Page, N_MyApp},
                        settings : {defaultSettings, customSettings},
                        clock : Clocks,
                        dom : {"ok", "failsBeforeClick", "failsAfterClick"}]
    /\ alerts = <<>>
    /\ downloads = <<>>
    /\ exportOutcome = NoResult
    /\ ScoreIdle
    /\ DocIdle
    /\ WcagIdle
    /\ WebIdle
    /\ PluginIdle
    /\ SettingsIdle

\* exportReport(result, format, name, settings) runs to its end.
ExportReport ==
    /\ exportOutcome = NoResult
    /\ LET done == exportReport(exportInput.result, exportInput.format, exportInput.name,
                                exportInput.settings, exportInput.clock, exportInput.dom)
       IN /\ alerts' = alerts \o done.alerts
          /\ downloads' = downloads \o done.downloads
          /\ exportOutcome' = done.outcome
    /\ UNCHANGED <<exportInput, scoreVars, docVars, wcagVars, webVars, pluginVars, settingsVars, walkVars>>

NextExport == ExportReport

SpecExport == InitExport /\ [][NextExport]_vars

\* The artifact the markdown format gives for the arguments and the
\* environment of the call.
MarkdownDownloads(input) ==
    exportReport(input.result, "markdown", input.name, input.settings,
                 input.clock, input.dom).downloads

\* C19: exportReport with format 'pdf' tells the user that PDF is not yet
\* available and produces exactly the artifact format 'markdown' produces
\* for the same result, name and settings, never an empty one; a format
\* that is not recognised produces the Markdown artifact too.
C19_PdfFallsBackToMarkdown ==
    (exportOutcome # NoResult /\ exportInput.format \notin {"markdown", "html"}) =>
        /\ exportInput.format = "pdf" => alerts = <<PdfNotice>>
        /\ downloads = MarkdownDownloads(exportInput)
        /\ exportInput.dom = "ok" => Len(downloads) = 1
        /\ \A i \in DOMAIN downloads :
              /\ downloads[i].type = "text/markdown"
              /\ downloads[i].content # <<>>
              /\ downloads[i].content[1].chars = exportInput.name

\* C19's case: a PDF export of a result with two issues has ended and the
\* browser holds one file.
C19_Witness ==
    /\ exportOutcome # NoResult
    /\ exportInput.format = "pdf"
    /\ Len(exportInput.result.issues) = 2
    /\ exportOutcome.status = "returned"
    /\ Len(downloads) = 1
    /\ downloads[1].filename = <<"u", "x", "a", "u", "d", "i", "t", "-", "m", "y", "-", "a", "p", "p", "-", "2", ".", "m", "d">>

C19_WitnessUnrecognised ==
    /\ exportOutcome # NoResult
    /\ exportInput.format = "docx"
    /\ alerts = <<>>
    /\ Len(downloads) = 1


(***************************************************************************)
(* The recursion of analyzeAccessibility and analyzeHeuristics and the     *)
(* upward walk of checkTextContrast, call by call and step by step         *)
(***************************************************************************)

\* The largest number of unreturned calls, and of steps of one upward
\* walk, that are followed.
MaxCalls == 6

\* The elements of a tree the host hands over.
WalkIds == {1, 2, 3}

\* A node together with its children property: in a malformed tree the
\* children lists and the parent links need not agree.
WalkNode(n, kids) ==
    [f \in DOMAIN n \cup {"children"} |-> IF f = "children" THEN kids ELSE n[f]]

\* Trees of a frame, a group and a text: well-formed ones, ones in which an
\* element is among its own descendants, and ones whose parent links run in
\* a circle.
WalkTrees ==
    {<<WalkNode(Node(p1, "FRAME", N_Page, Fills(f1), Undefined, Undefined, <<>>,
                     0, Px(400), Px(300), 0), k1),
       WalkNode(Node(p2, "GROUP", N_Group, Fills(f2), Undefined, Undefined, <<>>,
                     0, Px(200), Px(100), 0), k2),
       WalkNode(TextNode(p3, Fills(<<SolidPaint(Black, TRUE)>>), 14, 400), <<>>)>> :
        p1 \in {0, 2}, p2 \in {1, 2}, p3 \in {1, 2},
        k1 \in {<<2>>, <<2, 3>>, <<3>>}, k2 \in {<<>>, <<3>>, <<1>>, <<2>>},
        f1 \in {<<>>, <<SolidPaint(White, TRUE)>>},
        f2 \in {<<>>, <<SolidPaint(White, TRUE)>>}}

\* The tree is well-formed: the parent links and the children lists agree
\* and the root has no parent.
WellFormed(tree) ==
    /\ tree[1].parent = 0
    /\ \A n \in DOMAIN tree : \A i \in DOMAIN tree[n].children :
          tree[tree[n].children[i]].parent = n
    /\ \A n \in DOMAIN tree :
          tree[n].parent # 0 =>
              \E i \in DOMAIN tree[tree[n].parent].children :
                  tree[tree[n].parent].children[i] = n

\* A call of the analysis function for a node, at its entry: the child it
\* will turn to next, and where the upward walk of checkTextContrast stands
\* (0 when there is no walk or it is over).
Call(tree, which, n) ==
    [node |-> n,
     next |-> 1,
     climbAt |-> IF /\ which = "analyzeAccessibility"
                    /\ IsArray(tree[n].fills)
                    /\ tree[n].type = "TEXT"
                    /\ getNodeColor(tree[n]) # Null
                 THEN tree[n].parent ELSE 0,
     climbSteps |-> 0]

\* One pass of the body of while (parent && !bgColor): where the walk
\* stands afterwards.
ClimbFrom(tree, p) ==
    LET bgColor == IF IsArray(tree[p].fills) /\ tree[p].fills.paints # <<>>
                   THEN getNodeColor(tree[p]) ELSE Null
    IN IF bgColor # Null THEN 0 ELSE tree[p].parent

\* 'children' in node && node.children, as the list the loop runs over.
LoopChildren(node) == IF HasChildrenProp(node) THEN node.children ELSE <<>>

Top == callStack[Len(callStack)]

InitRecursion ==
    /\ walkInput \in [which : {"analyzeAccessibility", "analyzeHeuristics"}, tree : WalkTrees]
    /\ callStack = <<Call(walkInput.tree, walkInput.which, 1)>>
    /\ ScoreIdle
    /\ DocIdle
    /\ WcagIdle
    /\ WebIdle
    /\ PluginIdle
    /\ SettingsIdle
    /\ ExportIdle

\* One pass of the loop of the upward walk in the innermost call.
ClimbStep ==
    /\ callStack # <<>>
    /\ Top.climbAt # 0
    /\ Top.climbSteps < MaxCalls
    /\ callStack' = [callStack EXCEPT ![Len(callStack)] =
                        [@ EXCEPT !.climbAt = ClimbFrom(walkInput.tree, Top.climbAt),
                                  !.climbSteps = @ + 1]]
    /\ UNCHANGED <<walkInput, scoreVars, docVars, wcagVars, webVars, pluginVars,
                   settingsVars, exportVars>>

\* The loop over the children calls the function for the next child.
EnterChild ==
    /\ callStack # <<>>
    /\ Top.climbAt = 0
    /\ Top.next <= Len(LoopChildren(walkInput.tree[Top.node]))
    /\ Len(callStack) < MaxCalls
    /\ callStack' = Append(callStack,
                           Call(walkInput.tree, walkInput.which,
                                LoopChildren(walkInput.tree[Top.node])[Top.next]))
    /\ UNCHANGED <<walkInput, scoreVars, docVars, wcagVars, webVars, pluginVars,
                   settingsVars, exportVars>>

\* The innermost call has gone through its children and returns; its
\* caller moves on to the next child.
ReturnCall ==
    /\ callStack # <<>>
    /\ Top.climbAt = 0
    /\ Top.next > Len(LoopChildren(walkInput.tree[Top.node]))
    /\ callStack' =
          IF Len(callStack) = 1 THEN <<>>
          ELSE [SubSeq(callStack, 1, Len(callStack) - 1) EXCEPT
                   ![Len(callStack) - 1] = [@ EXCEPT !.next = @ + 1]]
    /\ UNCHANGED <<walkInput, scoreVars, docVars, wcagVars, webVars, pluginVars,
                   settingsVars, exportVars>>

NextRecursion == ClimbStep \/ EnterChild \/ ReturnCall

SpecRecursion == InitRecursion /\ [][NextRecursion]_vars

\* C25 (as claimed): the recursion over children and the upward background
\* walk are bounded on every tree, also on a malformed one in which an
\* element is its own descendant or the parent links run in a circle: as
\* with a visited set or a depth limit, no chain of calls and no walk is
\* longer than the tree has elements.
C25_RecursionBounded ==
    /\ Len(callStack) <= Cardinality(WalkIds)
    /\ \A i \in DOMAIN callStack : callStack[i].climbSteps <= Cardinality(WalkIds)

\* On the well-formed trees both are bounded and the analysis returns.
WellFormedBounded == WellFormed(walkInput.tree) => C25_RecursionBounded


(***************************************************************************)
(* Claims about the website audit                                          *)
(***************************************************************************)

Present(score) == score # Undefined

\* C4 (as claimed): in every AuditResult of analyzeFrame, of
\* processLighthouseResults and of runFallbackAudit, each category score the
\* audit covers (accessibility and heuristics for a frame; accessibility,
\* seo and performance for a website) is present if and only if the
\* Settings toggle of that category was true for the run.
C4_ScorePresentIffToggle ==
    /\ frameResult # NoResult =>
          /\ Present(frameResult.accessibility) <=> settings.accessibilityChecks
          /\ Present(frameResult.heuristics) <=> settings.heuristicChecks
    /\ webResult # NoResult =>
          /\ Present(webResult.accessibility) <=> webInput.settings.accessibilityChecks
          /\ Present(webResult.seo) <=> webInput.settings.seoChecks
          /\ Present(webResult.performance) <=> webInput.settings.performanceChecks

\* C5 (as claimed): a website audit run with an empty API key sends no
\* request to the scoring service and returns the fallback result, both in
\* analyzeWebsite and in auditWebsite of code.ts.
C5_NoKeyNoRequest ==
    /\ (webPc \in {"awaitFetch", "done"} /\ webInput.settings.lighthouseApiKey = NoKey) =>
          /\ requests = <<>>
          /\ webPc = "done" => webResult = runFallbackAudit(webInput.url, webInput.settings)
    /\ (pluginAudit # NoResult /\ pluginAudit.key = NoKey) =>
          /\ ~pluginAudit.requested
          /\ pluginAudit.outcome = Returned(performBasicWebsiteAudit)

\* The remote call failed: the fetch was rejected, the status is no
\* success, or the payload carries a top-level error and no categories.
RemoteCallFailed(r) ==
    \/ r.kind = "rejected"
    \/ r.kind = "response" /\ ~r.ok
    \/ r.kind = "response" /\ r.ok /\ r.json /\ r.data.error /\ ~r.data.categories.present

\* C6: whenever the remote call of runLighthouseAudit has failed,
\* runLighthouseAudit throws an Error whose message is the cause's message
\* behind "Failed to run Lighthouse audit: ", and returns no AuditResult.
C6_FailureIsWrappedError ==
    (webPc = "done" /\ RemoteCallFailed(response)) =>
        /\ lhOutcome.status = "threw"
        /\ lhOutcome.value = NoResult
        /\ lhOutcome.error.name = "Error"
        /\ Len(lhOutcome.error.message) >= 2
        /\ Head(lhOutcome.error.message) = "Failed to run Lighthouse audit: "

\* C6's case: a success status whose payload has an error field and no
\* categories, and the call has ended by throwing.
C6_Witness ==
    /\ webPc = "done"
    /\ response.kind = "response" /\ response.ok /\ response.json
    /\ response.data.error /\ ~response.data.categories.present
    /\ lhOutcome.status = "threw"

\* The fallback result as the claim states it.
ClaimedFallbackIssues(s) ==
    SelectSeq(FallbackIssues,
              LAMBDA issue : \/ issue.type = "accessibility" /\ s.accessibilityChecks
                             \/ issue.type = "seo" /\ s.seoChecks
                             \/ issue.type = "performance" /\ s.performanceChecks)

IsClaimedFallback(result, s) ==
    /\ {"accessibility", "overall", "issues"} \subseteq DOMAIN result
    /\ result.accessibility = 75
    /\ result.overall = 73
    /\ result.issues = ClaimedFallbackIssues(s)
    /\ IF s.seoChecks THEN "seo" \in DOMAIN result /\ result.seo = 80
       ELSE "seo" \in DOMAIN result => result.seo = Undefined
    /\ IF s.performanceChecks THEN "performance" \in DOMAIN result /\ result.performance = 65
       ELSE "performance" \in DOMAIN result => result.performance = Undefined

\* C7 (as claimed): the fallback result of a website audit, of
\* analyzeWebsite after a failed remote call and of auditWebsite of code.ts
\* without a key, has accessibility 75, overall 73, seo 80 and performance
\* 65 when their toggle is on, and the four fixed issues restricted to the
\* enabled categories.
C7_FallbackResult ==
    /\ (webPc = "done" /\ lhOutcome.status = "threw") =>
          IsClaimedFallback(webResult, webInput.settings)
    /\ (pluginAudit # NoResult /\ ~pluginAudit.requested) =>
          /\ pluginAudit.outcome.status = "returned"
          /\ IsClaimedFallback(pluginAudit.outcome.value, currentSettings)


(***************************************************************************)
(* Claims about the heuristic checks                                       *)
(***************************************************************************)

\* The children of t, as a set.
KidsOf(d, t) == {c \in DOMAIN d : d[c].parent = t}

\* The place of child c among the children of t sorted by x ascending,
\* children at the same x in their order in node.children.
XRank(d, t, c) ==
    1 + Cardinality({o \in KidsOf(d, t) :
                        d[o].x < d[c].x \/ (d[o].x = d[c].x /\ o < c)})

KidAtRank(d, t, r) == CHOOSE c \in KidsOf(d, t) : XRank(d, t, c) = r

\* The gap behind the r-th child in x order, in tenths of a pixel.
GapBehind(d, t, r) ==
    d[KidAtRank(d, t, r + 1)].x - (d[KidAtRank(d, t, r)].x + d[KidAtRank(d, t, r)].width)

\* The nearest integer to a positive length in tenths, halves up.
Nearest(g) == CHOOSE n \in 0..(g \div 10 + 1) : 10 * n - 5 <= g /\ g < 10 * n + 5

\* The positive gaps between adjacent children in x order, rounded.
RoundedGaps(d, t) ==
    LET n == Cardinality(KidsOf(d, t))
        indexed == [r \in 1..(n - 1) |-> <<r, GapBehind(d, t, r)>>]
        positive == SelectSeq(indexed, LAMBDA p : p[2] > 0)
    IN [i \in DOMAIN positive |-> Nearest(positive[i][2])]

\* The distinct values of a sequence, each at its first place.
FirstEncounters(G) ==
    LET indexed == [i \in DOMAIN G |-> <<i, G[i]>>]
        first == SelectSeq(indexed, LAMBDA p : \A j \in 1..(p[1] - 1) : G[j] # p[2])
    IN [i \in DOMAIN first |-> first[i][2]]

SpacingIssuesOf(result, t) ==
    SelectSeq(result.issues,
              LAMBDA i : i.title = "Inconsistent spacing" /\ i.node = t)

\* C11: for every container with more than 2 children that the heuristic
\* analysis visits, the result holds exactly one info issue 'Inconsistent
\* spacing' listing the distinct rounded positive gaps between x-adjacent
\* children in first-encounter order when there are more than 2 distinct
\* gaps, and no such issue otherwise.
C11_InconsistentSpacing ==
    (frameResult # NoResult /\ settings.heuristicChecks) =>
        \A t \in DOMAIN doc :
            (IsContainerType(doc[t]) /\ Cardinality(KidsOf(doc, t)) > 2) =>
                LET distinct == FirstEncounters(RoundedGaps(doc, t))
                    found == SpacingIssuesOf(frameResult, t)
                IN IF Len(distinct) > 2
                   THEN /\ Len(found) = 1
                        /\ found[1].severity = "info"
                        /\ found[1].type = "heuristic"
                        /\ found[1].spacings = distinct
                   ELSE found = <<>>

\* C11's case: children given out of x order with gaps 10, 20 and 35, and
\* the one issue lists the three values.
C11_Witness ==
    /\ frameResult # NoResult
    /\ Len(doc) = 5
    /\ <<doc[2].x, doc[3].x, doc[4].x, doc[5].x>> = <<500, 0, 950, 200>>
    /\ Len(SpacingIssuesOf(frameResult, 1)) = 1
    /\ SpacingIssuesOf(frameResult, 1)[1].spacings = <<10, 20, 35>>

\* C11's other case: four children with gaps 10, 10 (from 10.4) and 10, and
\* no issue.
C11_WitnessEqualGaps ==
    /\ frameResult # NoResult
    /\ Len(doc) = 5
    /\ <<doc[2].x, doc[3].x, doc[4].x, doc[5].x>> = <<0, 204, 400, 600>>
    /\ SpacingIssuesOf(frameResult, 1) = <<>>


(***************************************************************************)
(* Claims about processLighthouseResults                                   *)
(***************************************************************************)

\* processLighthouseResults has returned a result for the response.
Processed == webPc = "done" /\ lhOutcome.status = "returned"

\* The audit entries of the processed response, in order.
EntriesIn == response.data.audits.entries

\* The entry of the response an issue was made from: the one with its title.
EntryOf(issue) == CHOOSE e \in {EntriesIn[i] : i \in DOMAIN EntriesIn} : e.title = issue.title

\* Whether the rule id begins with the marker, character by character.
HasPrefix(id, p) == Len(id) >= Len(p) /\ \A i \in 1..Len(p) : id[i] = p[i]

\* The category of a rule id as the prefix convention states it.
ClaimedCategory(id) ==
    IF HasPrefix(id, <<"s", "e", "o", "-">>) THEN "seo"
    ELSE IF \/ HasPrefix(id, <<"p", "e", "r", "f", "o", "r", "m", "a", "n", "c", "e", "-">>)
            \/ HasPrefix(id, <<"s", "p", "e", "e", "d", "-">>)
            \/ HasPrefix(id, <<"l", "o", "a", "d", "-">>)
         THEN "performance"
         ELSE "accessibility"

\* C12: every issue of processLighthouseResults comes from an audit entry
\* of the response and has the category of the entry's rule id: seo for a
\* prefix 'seo-', performance for 'performance-', 'speed-' or 'load-',
\* accessibility for every other id.
C12_CategoryByPrefix ==
    Processed =>
        \A k \in DOMAIN lhOutcome.value.issues :
            LET issue == lhOutcome.value.issues[k]
            IN /\ \E i \in DOMAIN EntriesIn : EntriesIn[i].title = issue.title
               /\ issue.type = ClaimedCategory(EntryOf(issue).id)

\* C12's case: 'load-fast' became a performance issue and 'preload-fonts',
\* which holds 'load-' further in, an accessibility issue.
C12_Witness ==
    /\ Processed
    /\ Len(lhOutcome.value.issues) = 2
    /\ EntriesIn[1].id = Id_load_fast /\ lhOutcome.value.issues[1].type = "performance"
    /\ EntriesIn[2].id = Id_preload_fonts /\ lhOutcome.value.issues[2].type = "accessibility"


\* The severity of a score, in thousandths, as the thresholds state it.
ClaimedSeverity(score) ==
    CASE score < 500 -> "error"
      [] score >= 500 /\ score < 900 -> "warning"
      [] OTHER -> "info"

\* C13: every issue of processLighthouseResults has severity error when
\* its entry's score is below 0.5, warning when it is at least 0.5 and
\* below 0.9, info otherwise; the entry 'seo-meta-description' with score
\* 0.3 gives a seo issue of severity error.
C13_SeverityByScore ==
    Processed =>
        \A k \in DOMAIN lhOutcome.value.issues :
            LET issue == lhOutcome.value.issues[k]
                entry == EntryOf(issue)
            IN /\ issue.severity = ClaimedSeverity(entry.score)
               /\ (entry.id = Id_seo_meta_description /\ entry.score = 300) =>
                      (issue.type = "seo" /\ issue.severity = "error")

\* C13's case: the entry 'seo-meta-description' with score 0.3 has become
\* the only issue.
C13_Witness ==
    /\ Processed
    /\ Len(EntriesIn) = 1
    /\ EntriesIn[1].id = Id_seo_meta_description /\ EntriesIn[1].score = 300
    /\ Len(lhOutcome.value.issues) = 1
    /\ lhOutcome.value.issues[1].severity = "error"

\* C13 at a threshold: score exactly 0.5 gives a warning, and the entry
\* behind it, with score 0.3, an error.
C13_WitnessThreshold ==
    /\ Processed
    /\ Len(EntriesIn) = 2
    /\ EntriesIn[1].score = 500 /\ EntriesIn[2].score = 300
    /\ Len(lhOutcome.value.issues) = 2
    /\ lhOutcome.value.issues[1].severity = "warning"
    /\ lhOutcome.value.issues[2].severity = "error"


\* The toggle of a category in the settings of the run.
ToggleOf(category, s) ==
    CASE category = "accessibility" -> s.accessibilityChecks
      [] category = "seo" -> s.seoChecks
      [] category = "performance" -> s.performanceChecks

\* An entry that is to give an issue: its score is neither 1 nor null and
\* the toggle of its category is on.
GivesIssue(entry, s) ==
    /\ entry.score # 1000
    /\ entry.score # NullScore
    /\ ToggleOf(ClaimedCategory(entry.id), s)

TitlesOf(list) == [i \in DOMAIN list |-> list[i].title]

\* C14: the issues of processLighthouseResults are, in the order of the
\* response's audit entries, one issue for each entry whose score is
\* neither 1 nor null and whose category toggle is on, and nothing else.
C14_OneIssuePerFailedEntry ==
    Processed =>
        TitlesOf(lhOutcome.value.issues)
            = TitlesOf(SelectSeq(EntriesIn, LAMBDA e : GivesIssue(e, webInput.settings)))

\* C14's case: a not applicable (null) entry ahead of a failed one, and
\* only the failed one has become an issue.
C14_Witness ==
    /\ Processed
    /\ Len(EntriesIn) = 2
    /\ EntriesIn[1].score = NullScore
    /\ GivesIssue(EntriesIn[2], webInput.settings)
    /\ TitlesOf(lhOutcome.value.issues) = <<EntriesIn[2].title>>

\* C14 with a toggle off: of two failed entries the one whose category is
\* disabled is left out.
C14_WitnessToggleOff ==
    /\ Processed
    /\ Len(EntriesIn) = 2
    /\ EntriesIn[1].score = 300 /\ EntriesIn[2].score = 300
    /\ ~ToggleOf(ClaimedCategory(EntriesIn[1].id), webInput.settings)
    /\ TitlesOf(lhOutcome.value.issues) = <<EntriesIn[2].title>>


\* The advice table restricted to the rule ids of the responses: the ids
\* it has an entry for, and the entries.
AdviceIds == {Id_label, Id_meta_description}

AdviceTable ==
    [id \in AdviceIds |->
        IF id = Id_label
        THEN "Associate labels with form controls using the for attribute or nesting."
        ELSE "Add a meta description tag to improve SEO."]

GenericAdvice ==
    "Review the issue and make appropriate changes to improve accessibility, performance, or SEO."

C15_WitnessOff ==
    /\ Processed
    /\ ~webInput.settings.includeRemediation
    /\ Len(lhOutcome.value.issues) = 1
    /\ lhOutcome.value.issues[1].remediation = NoRemediation


(***************************************************************************)
(* Claims about failures during the analysis of an element                 *)
(***************************************************************************)

\* A failure occurs while element t is analyzed for accessibility: its
\* contrast check reads the color of malformed fill data.
FailsInAccessibility(d, t) == d[t].type = "TEXT" /\ getNodeColorThrows(d[t])

AnalysisErrorsOf(result, t) ==
    SelectSeq(result.issues,
              LAMBDA i : i.severity = "error" /\ i.type = "accessibility" /\ i.node = t)

\* C16 (as claimed): whenever a failure occurs while one element is
\* analyzed, also inside one of the per-element checks, the result holds
\* exactly one error issue for that element, and the issues of its siblings
\* are reported all the same.
C16_FailureBecomesOneErrorIssue ==
    (frameResult # NoResult /\ settings.accessibilityChecks) =>
        \A t \in DOMAIN doc :
            FailsInAccessibility(doc, t) =>
                /\ Len(AnalysisErrorsOf(frameResult, t)) = 1
                /\ \A o \in DOMAIN doc :
                      (o # t /\ doc[o].parent = doc[t].parent) =>
                          \A k \in DOMAIN checkTextContrast(doc, o) :
                              \E j \in DOMAIN frameResult.issues :
                                  frameResult.issues[j] = checkTextContrast(doc, o)[k]

(***************************************************************************)
(* Claims about the validation of UI messages                              *)
(***************************************************************************)

\* The message handled last fails the validation the claim names.
InvalidMessage(msg) ==
    \/ msg.type = "audit-frame" /\ (msg.selection = <<>> \/ Head(msg.selection) # "FRAME")
    \/ msg.type = "audit-website" /\ (~msg.url.present \/ msg.url.value = <<>>)

\* C18: an audit-frame message received while the selection is empty or
\* its first element is not a FRAME, and an audit-website message with an
\* empty URL, end in a notification only: the step that handles the message
\* posts nothing to the UI, runs no audit function and sends no request,
\* and notifies the user.
C18_InvalidInputNotifiesOnly ==
    [][(handled' = handled + 1 /\ InvalidMessage(lastMessage')) =>
          /\ posted' = posted
          /\ auditCalls' = auditCalls
          /\ pluginRequests' = pluginRequests
          /\ pluginPc' = "idle"
          /\ Len(notified') > Len(notified)]_vars

\* C18's cases: an audit-frame message met a selection whose first element
\* is a GROUP followed by a frame, after an audit of a frame had posted its
\* result; an audit-website message came with an empty URL.
C18_Witness ==
    /\ lastMessage # NoResult
    /\ lastMessage.type = "audit-frame"
    /\ lastMessage.selection = <<"GROUP", "FRAME">>
    /\ auditCalls = <<"auditFrame">>
    /\ Len(posted) = 1
    /\ notified = << <<"Please select a valid frame.">> >>

C18_WitnessEmptyUrl ==
    /\ lastMessage # NoResult
    /\ lastMessage.type = "audit-website"
    /\ lastMessage.url = Some(<<>>)
    /\ posted = <<>>
    /\ auditCalls = <<>>
    /\ Len(notified) = 2

(***************************************************************************)
(* Claims about the overall score of a website audit                       *)
(***************************************************************************)

\* The scores of the categories the settings enable, in the order
\* accessibility, seo, performance.
EnabledCategoryScores(data, s) ==
    (IF s.accessibilityChecks THEN <<CategoryPercent(data.categories.accessibility)>> ELSE <<>>)
    \o (IF s.seoChecks THEN <<CategoryPercent(data.categories.seo)>> ELSE <<>>)
    \o (IF s.performanceChecks THEN <<CategoryPercent(data.categories.performance)>> ELSE <<>>)

RECURSIVE SumSeq(_)
SumSeq(q) == IF q = <<>> THEN 0 ELSE Head(q) + SumSeq(Tail(q))

\* C20 (as claimed): for every response and every Settings value the
\* overall score of processLighthouseResults is the rounded mean of the
\* scores of exactly the enabled categories among accessibility, seo and
\* performance; a disabled accessibility category is left out of the mean.
C20_WebOverallIsMeanOfEnabled ==
    (Processed /\ EnabledCategoryScores(response.data, webInput.settings) # <<>>) =>
        lhOutcome.value.overall =
            RoundDiv(SumSeq(EnabledCategoryScores(response.data, webInput.settings)),
                     Len(EnabledCategoryScores(response.data, webInput.settings)))

(***************************************************************************)
(* Claims about the requests of analyzeWebsite                             *)
(***************************************************************************)

\* C21: one invocation of analyzeWebsite sends at most one request to the
\* scoring service; when the request has failed (the fetch was rejected, as
\* on a network timeout, the status was no success, or the payload could
\* not be processed) no further request is sent and the invocation returns
\* the result of runFallbackAudit.
C21_OneRequestThenFallback ==
    /\ Len(requests) <= 1
    /\ (webPc = "done" /\ lhOutcome.status = "threw") =>
          /\ Len(requests) = 1
          /\ webResult = runFallbackAudit(webInput.url, webInput.settings)

\* C21's case: the fetch of the one request was rejected and the
\* invocation has returned.
C21_Witness ==
    /\ webPc = "done"
    /\ response = Rejected
    /\ Len(requests) = 1
    /\ lhOutcome.status = "threw"
    /\ webResult # NoResult

(***************************************************************************)
(* Claims about the destructive-action and input-label checks              *)
(***************************************************************************)

IssuesTitled(result, title) == SelectSeq(result.issues, LAMBDA i : i.title = title)

\* Some sibling of element t satisfies the test, written out without the
\* helper of the model.
HasSiblingNamed(d, t, words) ==
    \E o \in DOMAIN d : o # t /\ d[o].parent = d[t].parent /\ NameHasAny(d[o], words)

HasTextSibling(d, t) ==
    \E o \in DOMAIN d : o # t /\ d[o].parent = d[t].parent /\ d[o].type = "TEXT"

\* C22 (as claimed): a 'Destructive action without confirmation' warning
\* is given to an element only if it is a component or instance whose
\* lower-cased name contains 'delete', 'remove' or 'destroy' and none of
\* its siblings has a name containing 'confirm', 'verification' or 'are you
\* sure'; an element whose name has none of the three words never gets it.
C22_DestructiveOnlyIfNamed ==
    frameResult # NoResult =>
        \A k \in DOMAIN IssuesTitled(frameResult, "Destructive action without confirmation") :
            LET t == IssuesTitled(frameResult, "Destructive action without confirmation")[k].node
            IN /\ doc[t].type \in {"COMPONENT", "INSTANCE"}
               /\ NameHasAny(doc[t], {W_delete, W_remove, W_destroy})
               /\ ~HasSiblingNamed(doc, t, {W_confirm, W_verification, W_are_you_sure})

\* C23 (as claimed): a 'Missing input label' warning is given to an
\* element only if it is a component, instance or rectangle whose
\* lower-cased name contains 'input', 'field' or 'textbox' and no sibling is
\* a text element or has a name containing 'label'; an element whose name
\* has none of the three words never gets it.
C23_MissingLabelOnlyIfNamed ==
    frameResult # NoResult =>
        \A k \in DOMAIN IssuesTitled(frameResult, "Missing input label") :
            LET t == IssuesTitled(frameResult, "Missing input label")[k].node
            IN /\ doc[t].type \in {"COMPONENT", "INSTANCE", "RECTANGLE"}
               /\ NameHasAny(doc[t], {W_input, W_field, W_textbox})
               /\ ~HasTextSibling(doc, t)
               /\ ~HasSiblingNamed(doc, t, {W_label})

(***************************************************************************)
(* Claims about the message handler: settings and audits                   *)
(***************************************************************************)

\* The step handles a message of one of the types.
Handles(types) == handled' = handled + 1 /\ lastMessage'.type \in types

\* The step ends a website audit: the suspended one resumes and runs to the
\* end of the handler, or one without a key runs through in its first step.
AuditWebsiteEnds ==
    \/ pluginPc = "awaitFetch" /\ pluginPc' = "idle"
    \/ /\ Handles({"audit-website"})
       /\ lastMessage'.url.present /\ lastMessage'.url.value # <<>>
       /\ pluginPc' = "idle"

\* C24: the in-memory Settings record is changed only by save-settings and
\* load-settings messages; handling audit-frame and audit-website messages,
\* whether the audit succeeds or fails, leaves every field unchanged.
C24_AuditsLeaveSettings ==
    [][/\ (Handles({"audit-frame", "audit-website"}) \/ AuditWebsiteEnds) =>
             currentSettings' = currentSettings
       /\ currentSettings' # currentSettings =>
             \/ Handles({"save-settings"})
             \/ pendingLoad # NoResult /\ pendingLoad' = NoResult]_vars

\* C24's case: with a key loaded from the storage, a website audit has
\* failed and a frame audit has run, and the settings are the loaded ones.
C24_Witness ==
    /\ auditCalls = <<"auditWebsite", "auditFrame">>
    /\ pluginAudit # NoResult
    /\ pluginAudit.outcome.status = "threw"
    /\ currentSettings = ObjectAssign(defaultSettings,
                                      [lighthouseApiKey |-> SomeKey, seoChecks |-> FALSE])

\* C26: a save-settings message handled while a website audit is suspended
\* on its remote call leaves the audit alone: every request carries the key
\* that was configured when its audit-website message was handled, no
\* request is changed or added by the save, and a new key is carried only
\* by the requests of audits started afterwards.
C26_InFlightAuditKeepsKey ==
    [][/\ pluginRequests' # pluginRequests =>
             /\ Handles({"audit-website"})
             /\ Len(pluginRequests') = Len(pluginRequests) + 1
             /\ SubSeq(pluginRequests', 1, Len(pluginRequests)) = pluginRequests
             /\ pluginRequests'[Len(pluginRequests')].key = currentSettings.lighthouseApiKey
             /\ pluginAudit'.key = currentSettings.lighthouseApiKey
       /\ (pluginPc = "awaitFetch" /\ Handles({"save-settings"})) =>
             /\ pluginRequests' = pluginRequests
             /\ pluginAudit' = pluginAudit
             /\ pluginPc' = "awaitFetch"]_vars

\* C26's case: an audit started with one key is suspended, and a
\* save-settings message has put another key into the settings.
C26_Witness ==
    /\ pluginPc = "awaitFetch"
    /\ lastMessage.type = "save-settings"
    /\ lastMessage.apiKey = Some(OtherKey)
    /\ currentSettings.lighthouseApiKey = OtherKey
    /\ Len(pluginRequests) = 1
    /\ pluginRequests[1].key = SomeKey
    /\ pluginAudit.key = SomeKey

\* msg.apiKey || ''
KeyOfMessage(msg) == IF msg.apiKey.present THEN msg.apiKey.value ELSE NoKey

\* C27 (as claimed): in every interleaving of a load-settings read and a
\* save-settings message, once both have completed the in-memory
\* lighthouseApiKey is the key of the most recent save-settings message.
C27_SavedKeySurvivesLoad ==
    (/\ lastMessage # NoResult
     /\ lastMessage.type = "save-settings"
     /\ pendingLoad = NoResult) =>
        currentSettings.lighthouseApiKey = KeyOfMessage(lastMessage)

ResultsPosted(list) == Len(SelectSeq(list, LAMBDA m : m.type = "audit-result"))

FailureNotices(list) ==
    Len(SelectSeq(list, LAMBDA n : Head(n) = "Failed to audit website: "))

\* C28: every audit-website message with a non-empty URL ends in exactly
\* one outcome: the step that ends its audit either posts one audit-result
\* message and shows no failure notification, or shows one failure
\* notification and posts no audit-result; while the audit is suspended
\* neither is produced.
C28_ExactlyOneOutcome ==
    [][/\ AuditWebsiteEnds =>
             \/ /\ ResultsPosted(posted') = ResultsPosted(posted) + 1
                /\ FailureNotices(notified') = FailureNotices(notified)
             \/ /\ ResultsPosted(posted') = ResultsPosted(posted)
                /\ FailureNotices(notified') = FailureNotices(notified) + 1
       /\ ~AuditWebsiteEnds =>
             /\ FailureNotices(notified') = FailureNotices(notified)
             /\ ResultsPosted(posted') # ResultsPosted(posted) => Handles({"audit-frame"})]_vars

\* C28's cases: one audit has posted its result and the next has failed
\* with a notification; then one result and one failure notice are there.
C28_Witness ==
    /\ auditCalls = <<"auditWebsite", "auditWebsite">>
    /\ pluginPc = "idle"
    /\ ResultsPosted(posted) = 1
    /\ FailureNotices(notified) = 1

(***************************************************************************)
(* Claims about the overall score of the fallback result                   *)
(***************************************************************************)

\* The category scores that are present in a result of a website audit.
PresentScores(result) ==
    SelectSeq(<<result.accessibility, result.seo, result.performance>>,
              LAMBDA score : score # Undefined)

\* C29 (as claimed): for every Settings value the overall score of the
\* result of runFallbackAudit is the rounded mean of the category scores
\* present in that result.
C29_FallbackOverallIsMean ==
    (webPc = "done" /\ lhOutcome.status = "threw") =>
        /\ webResult = runFallbackAudit(webInput.url, webInput.settings)
        /\ webResult.overall =
              RoundDiv(SumSeq(PresentScores(webResult)), Len(PresentScores(webResult)))

(***************************************************************************)
(* Claims about the two background resolvers                               *)
(***************************************************************************)

\* C30 (as claimed): for every text element of every tree, findbackground
\* as auditFrame uses it gives the same background color as the ancestor
\* walk of checkTextContrast.
C30_ResolversAgree ==
    auditFrameResult # NoResult =>
        \A t \in DOMAIN doc :
            doc[t].type = "TEXT" => findbackground(doc, t).color = TextBackground(doc, t)


====
